---- MODULE Spec2Model ----
(***************************************************************************)
(* AuditBoard bulk-delete utilities: the HTTP client wrapper               *)
(* (core/api_client.py), the confirmation gate (core/safety.py), the       *)
(* configuration loader (core/config.py) and the deletion entry points     *)
(* (deletion/delete_*.py), plus the region dependency checker of           *)
(* discovery/find_dependencies.py.                                         *)
(*                                                                         *)
(* One behaviour is one process run (one command line) or, for the         *)
(* "client" scenario, one direct call of AuditBoardClient.get/post/delete. *)
(* The remote server is the environment: every HTTP attempt receives a     *)
(* nondeterministically chosen response or a network-level exception.      *)
(***************************************************************************)
EXTENDS Integers, Sequences, FiniteSets, TLC

\* ------------------------------------------------------------------ bounds
MaxIds == 2            \* longest --ids list on the command line
MaxCfgRetries == 1     \* largest auditboard.max_retries a config file sets
MaxRemote == 2         \* longest entities / processes collection served
MaxLinks == 1          \* longest junction (*_data) collection served
MaxOriginals == 2      \* longest list of records in an original file

\* ------------------------------------------------------- program constants
DefaultMaxRetries == 3
DefaultRetryDelay == 2
ExitInterrupted == 130

Ids == 1..2
RegionIds == 1..2

\* --------------------------------------------------------------- text
\* A line of text is the sequence of its space-separated words.
Digits == <<"0", "1", "2", "3", "4", "5", "6", "7", "8", "9">>

NumStr(n) == Digits[n + 1]

upper(w) ==
    CASE w = "controls" -> "CONTROLS"
      [] w = "entities" -> "ENTITIES"
      [] w = "processes" -> "PROCESSES"
      [] w = "subprocesses" -> "SUBPROCESSES"
      [] w = "region" -> "REGION"
      [] w = "delete" -> "DELETE"
      [] OTHER -> w

lower(w) ==
    CASE w = "CONTROLS" -> "controls"
      [] w = "ENTITIES" -> "entities"
      [] w = "PROCESSES" -> "processes"
      [] w = "SUBPROCESSES" -> "subprocesses"
      [] w = "REGION" -> "region"
      [] w = "DELETE" -> "delete"
      [] w = "TRUE" -> "true"
      [] w = "True" -> "true"
      [] w = "YES" -> "yes"
      [] w = "FALSE" -> "false"
      [] OTHER -> w

\* What the operator does at a prompt: types a line, closes stdin, or Ctrl+C.
Line(words) == [kind |-> "line", text |-> words]
EOFError == [kind |-> "eof", text |-> <<>>]
KeyboardInterrupt == [kind |-> "interrupt", text |-> <<>>]

ProductionText == <<"I", "UNDERSTAND", "THIS", "IS", "PRODUCTION">>

\* ------------------------------------------------------------- scripts
BulkScripts == {"delete_controls", "delete_entities", "delete_processes",
                "delete_subprocesses"}
DeletionScripts == BulkScripts \cup {"delete_region"}
Scripts == DeletionScripts \cup {"find_dependencies", "client"}

item_type(s) ==
    CASE s = "delete_controls" -> "controls"
      [] s = "delete_entities" -> "entities"
      [] s = "delete_processes" -> "processes"
      [] s = "delete_subprocesses" -> "subprocesses"
      [] OTHER -> "region"

\* the key under which a bulk result carries the number of targets
total_key(s) == IF s = "delete_controls" THEN "total_controls" ELSE "total"

\* --------------------------------------------------- core/safety.py
\* is_dry_run(): --dry-run wins, then --live, then the DRY_RUN variable
\* (its default is 'true').
is_dry_run(argv, environ) ==
    IF argv.dry_run_flag THEN TRUE
    ELSE IF argv.live THEN FALSE
    ELSE lower(IF environ.DRY_RUN = "unset" THEN "true" ELSE environ.DRY_RUN)
            \in {"true", "1", "yes"}

\* SafetyChecker.confirm_deletion: the value it returns for what was typed.
default_confirmation_text(itype, item_count) ==
    <<"DELETE", NumStr(item_count), upper(itype)>>

confirm_deletion_loose(dry, itype, item_count, confirmation_text, skip_confirm, user_input) ==
    IF dry THEN TRUE
    ELSE IF skip_confirm THEN TRUE
    ELSE LET text == IF confirmation_text = <<>>
                     THEN default_confirmation_text(itype, item_count)
                     ELSE confirmation_text
         IN  IF user_input.kind = "line"
             THEN Len(user_input.text) = Len(text)
                  /\ \A k \in 1..Len(text) : upper(user_input.text[k]) = upper(text[k])
             ELSE FALSE

confirm_deletion(dry, itype, item_count, confirmation_text, skip_confirm, user_input) ==
    IF dry THEN TRUE
    ELSE IF skip_confirm THEN TRUE
    ELSE LET text == IF confirmation_text = <<>>
                     THEN default_confirmation_text(itype, item_count)
                     ELSE confirmation_text
         IN  IF user_input.kind = "line"
             THEN user_input.text = text
             ELSE FALSE

\* SafetyChecker.confirm_production
confirm_production(dry, sandbox, user_input) ==
    IF sandbox THEN TRUE
    ELSE IF dry THEN TRUE
    ELSE IF user_input.kind = "line"
         THEN user_input.text = ProductionText
         ELSE FALSE

\* the phrase each driver passes to confirm_deletion (<<>> stands for None)
confirmation_text_arg(s, total, region_id) ==
    CASE s = "delete_controls" -> <<"DELETE", NumStr(total), "CONTROLS">>
      [] s = "delete_region" -> <<"DELETE", "REGION", NumStr(region_id)>>
      [] OTHER -> <<>>

\* the phrase the operator has to type
ConfirmationPhrase(s, total, region_id) ==
    IF confirmation_text_arg(s, total, region_id) = <<>>
    THEN default_confirmation_text(item_type(s), total)
    ELSE confirmation_text_arg(s, total, region_id)

\* --------------------------------------------------- core/config.py
\* Config._load_auditboard_config: file value or the dataclass default.
\* A key the file does not set is "unset".
cfg_get(v, default) == IF v = -1 THEN default ELSE v

AuditBoardConfig(file) ==
    [max_retries |-> cfg_get(file.max_retries, DefaultMaxRetries),
     retry_delay |-> cfg_get(file.retry_delay, DefaultRetryDelay)]

\* Config._load_safety_config: DRY_RUN only sets dry_run_default
SafetyConfig(environ) ==
    [dry_run_default |->
        lower(IF environ.DRY_RUN = "unset" THEN "true" ELSE environ.DRY_RUN)
            \in {"true", "1", "yes"}]

DeletionConfig(file) ==
    [pause_every_n |-> cfg_get(file.pause_every_n, 5)]

\* Config.__init__
LoadConfig(file, environ) ==
    [auditboard |-> AuditBoardConfig(file),
     safety |-> SafetyConfig(environ),
     deletion |-> DeletionConfig(file)]

NoFile == [max_retries |-> -1, retry_delay |-> -1, pause_every_n |-> -1,
           sandbox |-> TRUE]

\* --------------------------------------------------- entry points: main()
\* dry_run = not args.live, in every deletion entry point
DryRunMode_env(argv, environ) == is_dry_run(argv, environ)

DryRunMode(argv, environ) == ~ argv.live

\* AuditBoardClient(...) as each main() constructs it: delete_controls and
\* find_dependencies pass the configured retry settings, the other entry
\* points pass base_url and api_token only and get the constructor defaults.
NewClient(s, ab) ==
    IF s \in {"delete_controls", "find_dependencies", "client", "analyze_region",
              "search_entities", "check_restoration", "verify_restoration"}
    THEN [max_retries |-> ab.max_retries, retry_delay |-> ab.retry_delay]
    ELSE [max_retries |-> DefaultMaxRetries, retry_delay |-> DefaultRetryDelay]

\* --------------------------------------------------- core/api_client.py
\* What one HTTP attempt can meet: a response, or a requests.RequestException
\* raised below the status line (connection error, timeout).
Response(status, body) ==
    [kind |-> "response", status_code |-> status, body |-> body, list |-> <<>>]

ListResponse(collection) ==
    [kind |-> "response", status_code |-> 200, body |-> "list", list |-> collection]

RequestException ==
    [kind |-> "exception", status_code |-> 0, body |-> "none", list |-> <<>>]

\* remote collections: record j of a collection has id j and some region_id
RegionIdLists == UNION {[1..n -> RegionIds] : n \in 0..MaxRemote}

Collection(rids) == [j \in 1..Len(rids) |-> [id |-> j, region_id |-> rids[j]]]

\* the other collections: record j has id j and its foreign keys
FkLists == UNION {[1..n -> Ids] : n \in 0..MaxRemote}

FkPairLists == UNION {[1..n -> Ids \X Ids] : n \in 0..MaxLinks}

Subprocesses(fks) == [j \in 1..Len(fks) |-> [id |-> j, process_id |-> fks[j]]]

Controls(fks) == [j \in 1..Len(fks) |-> [id |-> j, subprocess_id |-> fks[j]]]

ProcessesData(fks) ==
    [j \in 1..Len(fks) |-> [id |-> j, entity_id |-> fks[j][1], process_id |-> fks[j][2]]]

SubprocessesData(fks) ==
    [j \in 1..Len(fks) |->
        [id |-> j, processes_datum_id |-> fks[j][1], subprocess_id |-> fks[j][2]]]

ControlsData(fks) ==
    [j \in 1..Len(fks) |->
        [id |-> j, control_id |-> fks[j][1], subprocesses_datum_id |-> fks[j][2]]]

\* what the server may hold under each resource
RemoteCollections(resource) ==
    CASE resource = "subprocesses" -> {Subprocesses(f) : f \in FkLists}
      [] resource = "controls" -> {Controls(f) : f \in FkLists}
      [] resource = "processes_data" -> {ProcessesData(f) : f \in FkPairLists}
      [] resource = "subprocesses_data" -> {SubprocessesData(f) : f \in FkPairLists}
      [] resource = "controls_data" -> {ControlsData(f) : f \in FkPairLists}
      [] resource = "regions" -> {[j \in 1..n |-> [id |-> j]] : n \in 0..MaxRemote}
      [] OTHER -> {Collection(r) : r \in RegionIdLists}

ServerOutcomes(rq) ==
    CASE rq.method = "GET" /\ rq.by_id ->
            {Response(200, "record"), Response(200, "empty"), Response(404, "none"),
             Response(500, "none"), RequestException}
      [] rq.method = "GET" /\ ~ rq.by_id ->
            {ListResponse(c) : c \in RemoteCollections(rq.resource)}
            \cup {Response(404, "none"), Response(500, "none"), RequestException}
      [] rq.method = "POST" ->
            {Response(200, "record"), Response(404, "none"), Response(500, "none"),
             RequestException}
      [] OTHER ->
            {Response(200, "none"), Response(204, "none"), Response(202, "none"),
             Response(304, "none"), Response(404, "none"), Response(500, "none"),
             RequestException}

\* a logical request: one call of _make_request with retry_count = 0
NewRequest(method, resource, by_id, id) ==
    [state |-> "pending", method |-> method, resource |-> resource,
     by_id |-> by_id, id |-> id, retry_count |-> 0, attempts |-> 0,
     sleeps |-> <<>>, response |-> RequestException]

NoRequest ==
    [state |-> "idle", method |-> "GET", resource |-> "none",
     by_id |-> FALSE, id |-> 0, retry_count |-> 0, attempts |-> 0,
     sleeps |-> <<>>, response |-> RequestException]

\* the retry tests of _make_request
retry_on_response_4xx(response, retry_count, c) ==
    response.status_code >= 400 /\ retry_count < c.max_retries

retry_on_response(response, retry_count, c) ==
    response.status_code >= 500 /\ retry_count < c.max_retries

retry_on_exception_le(retry_count, c) ==
    retry_count <= c.max_retries

retry_on_exception(retry_count, c) ==
    retry_count < c.max_retries

\* the backoff sleep before retry number retry_count + 1
backoff_flat(retry_count, c) == c.retry_delay

backoff(retry_count, c) == c.retry_delay * (retry_count + 1)

\* (a retry that recurses with the same retry_count)
_make_request_uncounted(rq, c, out) ==
    LET made == [rq EXCEPT !.attempts = @ + 1]
        again == [rq EXCEPT !.response = out]
    IN  IF out.kind = "response"
        THEN IF retry_on_response(out, rq.retry_count, c)
             THEN again
             ELSE [made EXCEPT !.state = "returned", !.response = out]
        ELSE IF retry_on_exception(rq.retry_count, c)
             THEN again
             ELSE [made EXCEPT !.state = "raised", !.response = out]

\* AuditBoardClient._make_request, one level of its recursion: the attempt
\* was made and met `out`; either sleep and recurse with retry_count + 1, or
\* return the response, or re-raise.  rq.response is what the latest attempt
\* met.
_make_request(rq, c, out) ==
    LET made == [rq EXCEPT !.attempts = @ + 1]
        again == [made EXCEPT !.response = out,
                              !.sleeps = Append(@, backoff(rq.retry_count, c)),
                              !.retry_count = @ + 1]
    IN  IF out.kind = "response"
        THEN IF retry_on_response(out, rq.retry_count, c)
             THEN again
             ELSE [made EXCEPT !.state = "returned", !.response = out]
        ELSE IF retry_on_exception(rq.retry_count, c)
             THEN again
             ELSE [made EXCEPT !.state = "raised", !.response = out]

\* does the attempt that met `out` lead to a backoff sleep?
sleeps_after(rq, c, out) == _make_request(rq, c, out).state = "pending"

\* requests.Response.raise_for_status
raise_for_status(response) ==
    response.status_code >= 400 /\ response.status_code < 600

\* AuditBoardClient.get / post on a finished request
client_get(rq) ==
    IF rq.state = "raised" THEN [raised |-> "RequestException", json |-> "none"]
    ELSE IF raise_for_status(rq.response) THEN [raised |-> "HTTPError", json |-> "none"]
    ELSE [raised |-> "none", json |-> rq.response.body]

client_post(rq) == client_get(rq)

\* AuditBoardClient.delete on a finished request
client_delete_2xx(rq) ==
    IF rq.state = "raised" THEN [raised |-> "RequestException", value |-> FALSE]
    ELSE IF rq.response.status_code \in 200..299 THEN [raised |-> "none", value |-> TRUE]
    ELSE IF raise_for_status(rq.response) THEN [raised |-> "HTTPError", value |-> FALSE]
    ELSE [raised |-> "none", value |-> FALSE]

\* (a delete that raises for every status other than 200 / 204)
client_delete_strict(rq) ==
    IF rq.state = "raised" THEN [raised |-> "RequestException", value |-> FALSE]
    ELSE IF rq.response.status_code \in {200, 204} THEN [raised |-> "none", value |-> TRUE]
    ELSE [raised |-> "HTTPError", value |-> FALSE]

client_delete(rq) ==
    IF rq.state = "raised" THEN [raised |-> "RequestException", value |-> FALSE]
    ELSE IF rq.response.status_code \in {200, 204} THEN [raised |-> "none", value |-> TRUE]
    ELSE IF raise_for_status(rq.response) THEN [raised |-> "HTTPError", value |-> FALSE]
    ELSE [raised |-> "none", value |-> FALSE]

\* (an accessor that catches every requests exception)
get_one_catch_all(rq) ==
    LET r == client_get(rq)
    IN  IF r.raised # "none" THEN [raised |-> "none", found |-> FALSE]
        ELSE [raised |-> "none", found |-> r.json = "record"]

\* get_control / get_process / get_subprocess / get_entity / get_region /
\* get_auditable_entity: only requests.HTTPError is caught
get_one(rq) ==
    LET r == client_get(rq)
    IN  IF r.raised = "HTTPError" THEN [raised |-> "none", found |-> FALSE]
        ELSE IF r.raised # "none" THEN [raised |-> r.raised, found |-> FALSE]
        ELSE [raised |-> "none", found |-> r.json = "record"]

\* get_entities / get_processes: nothing is caught
get_list(rq) ==
    LET r == client_get(rq)
    IN  IF r.raised # "none" THEN [raised |-> r.raised, list |-> <<>>]
        ELSE [raised |-> "none", list |-> rq.response.list]

\* str(e) of what client.delete raised
str_error(rq) ==
    IF rq.state = "raised" THEN "ConnectionError"
    ELSE IF rq.response.status_code >= 500 THEN "Server Error"
    ELSE "Client Error"

\* --------------------------------------------------- dependency checkers
\* deletion/delete_region.py check_region_dependencies: (safe, dependencies)
check_region_dependencies_entities_only(region_id, all_entities, all_processes) ==
    LET InRegion(x) == x.region_id = region_id
        ents == SelectSeq(all_entities, InRegion)
        procs == SelectSeq(all_processes, InRegion)
        has_dependencies == Len(ents) > 0
    IN  [safe |-> ~ has_dependencies,
         dependencies |-> [entities |-> ents, processes |-> procs]]


check_region_dependencies(region_id, all_entities, all_processes) ==
    LET InRegion(x) == x.region_id = region_id
        ents == SelectSeq(all_entities, InRegion)
        procs == SelectSeq(all_processes, InRegion)
        has_dependencies == Len(ents) > 0 \/ Len(procs) > 0
    IN  [safe |-> ~ has_dependencies,
         dependencies |-> [entities |-> ents, processes |-> procs]]

\* discovery/find_dependencies.py check_region_dependencies: the report
fd_check_region_dependencies(region_id, all_entities, all_processes) ==
    LET InRegion(x) == x.region_id = region_id
        region_entities == SelectSeq(all_entities, InRegion)
        region_processes == SelectSeq(all_processes, InRegion)
    IN  [region_id |-> region_id,
         has_dependencies |-> Len(region_entities) > 0 \/ Len(region_processes) > 0,
         entities |-> region_entities,
         entities_count |-> Len(region_entities),
         processes |-> region_processes,
         processes_count |-> Len(region_processes)]

\* value in list
InList(v, list) == \E j \in 1..Len(list) : list[j] = v

\* discovery/find_dependencies.py check_entity_dependencies
check_entity_dependencies(entity_ids, all_pd) ==
    LET Linked(pd) == InList(pd.entity_id, entity_ids)
        entity_pd == SelectSeq(all_pd, Linked)
    IN  [entity_ids |-> entity_ids,
         has_dependencies |-> Len(entity_pd) > 0,
         processes_data |-> entity_pd,
         processes_data_count |-> Len(entity_pd)]

\* discovery/find_dependencies.py check_process_dependencies
check_process_dependencies(process_ids, all_subprocesses) ==
    LET Linked(sp) == InList(sp.process_id, process_ids)
        process_subprocesses == SelectSeq(all_subprocesses, Linked)
    IN  [process_ids |-> process_ids,
         has_dependencies |-> Len(process_subprocesses) > 0,
         subprocesses |-> process_subprocesses,
         subprocesses_count |-> Len(process_subprocesses)]

\* (a checker that looks at the first id only)
check_subprocess_dependencies_first_id(subprocess_ids, all_controls) ==
    LET Linked(c) == c.subprocess_id = subprocess_ids[1]
        subprocess_controls == SelectSeq(all_controls, Linked)
    IN  [subprocess_ids |-> subprocess_ids,
         has_dependencies |-> Len(subprocess_controls) > 0,
         controls |-> subprocess_controls,
         controls_count |-> Len(subprocess_controls)]

\* discovery/find_dependencies.py check_subprocess_dependencies
check_subprocess_dependencies(subprocess_ids, all_controls) ==
    LET Linked(c) == InList(c.subprocess_id, subprocess_ids)
        subprocess_controls == SelectSeq(all_controls, Linked)
    IN  [subprocess_ids |-> subprocess_ids,
         has_dependencies |-> Len(subprocess_controls) > 0,
         controls |-> subprocess_controls,
         controls_count |-> Len(subprocess_controls)]

\* the collection each checker of find_dependencies fetches
child_resource(type) ==
    CASE type = "entities" -> "processes_data"
      [] type = "processes" -> "subprocesses"
      [] OTHER -> "controls"

\* main() of find_dependencies: the checker --type selects
check_dependencies(type, ids, children) ==
    CASE type = "entities" -> check_entity_dependencies(ids, children)
      [] type = "processes" -> check_process_dependencies(ids, children)
      [] OTHER -> check_subprocess_dependencies(ids, children)

\* --------------------------------------------------- result objects
EmptyResult(s, dry) ==
    IF s = "delete_controls"
    THEN [timestamp |-> "now", dry_run |-> dry, total_controls |-> 0,
          deleted |-> <<>>, failed |-> <<>>]
    ELSE [timestamp |-> "now", dry_run |-> dry, total |-> 0,
          deleted |-> <<>>, failed |-> <<>>]

NewResults(s, dry, total) ==
    IF s = "delete_controls"
    THEN [timestamp |-> "now", dry_run |-> dry, total_controls |-> total,
          deleted |-> <<>>, failed |-> <<>>]
    ELSE [timestamp |-> "now", dry_run |-> dry, total |-> total,
          deleted |-> <<>>, failed |-> <<>>]

RegionNotFound(dry) ==
    [timestamp |-> "now", dry_run |-> dry, success |-> FALSE,
     error |-> "Region not found"]

RegionBlocked(dry, dependencies) ==
    [timestamp |-> "now", dry_run |-> dry, success |-> FALSE,
     error |-> "Dependencies exist", dependencies |-> dependencies]

NewRegionResults(dry, region_id) ==
    [timestamp |-> "now", dry_run |-> dry, region_id |-> region_id,
     success |-> FALSE]

\* one pass of the body of the delete loop after client.delete_* finished:
\* the entry appended to 'deleted' or to 'failed'
Classify_no_error(res, rq, id) ==
    LET d == client_delete(rq)
    IN  IF d.raised = "none" /\ d.value
        THEN [res EXCEPT !.deleted = Append(@, [id |-> id])]
        ELSE [res EXCEPT !.failed = Append(@, [id |-> id])]

Classify(res, rq, id) ==
    LET d == client_delete(rq)
    IN  IF d.raised = "none" /\ d.value
        THEN [res EXCEPT !.deleted = Append(@, [id |-> id])]
        ELSE IF d.raised = "none"
        THEN [res EXCEPT !.failed = Append(@, [id |-> id])]
        ELSE [res EXCEPT !.failed = Append(@, [id |-> id, error |-> str_error(rq)])]

\* (the test that also pauses after the last item)
pause_after_every_nth(i, total, pause_every_n, dry) ==
    ~ dry /\ i % pause_every_n = 0

\* the rate-limit test after item i
pause_after(i, total, pause_every_n, dry) ==
    ~ dry /\ i % pause_every_n = 0 /\ i < total

\* the status with which only a failed live deletion of a region is non-zero
exit_code_dry_run_zero(s, res) ==
    IF s = "delete_region" THEN (IF res.success \/ res.dry_run THEN 0 ELSE 1)
    ELSE IF s = "find_dependencies" THEN (IF res.has_dependencies THEN 1 ELSE 0)
    ELSE IF s = "verify_restoration" THEN (IF res.perfect_restoration THEN 0 ELSE 1)
    ELSE IF s = "check_restoration" THEN (IF res.still_missing # <<>> THEN 1 ELSE 0)
    ELSE 0

\* sys.exit code of main() once the results were saved
exit_code(s, res) ==
    IF s = "delete_region" THEN (IF res.success THEN 0 ELSE 1)
    ELSE IF s = "find_dependencies" THEN (IF res.has_dependencies THEN 1 ELSE 0)
    ELSE IF s = "verify_restoration" THEN (IF res.perfect_restoration THEN 0 ELSE 1)
    ELSE IF s = "check_restoration" THEN (IF res.still_missing # <<>> THEN 1 ELSE 0)
    ELSE 0

\* --------------------------------------------------- inputs
\* command lines: --ids lists (with repetitions), --region-id, --live, --force
IdLists == UNION {[1..n -> Ids] : n \in 1..MaxIds}

\* config files: keys a file leaves out are -1
ConfigFiles ==
    {[NoFile EXCEPT !.sandbox = sb] : sb \in BOOLEAN}
    \cup {[max_retries |-> m, retry_delay |-> 1, pause_every_n |-> m + 1,
           sandbox |-> sb] : m \in 0..MaxCfgRetries, sb \in BOOLEAN}

lower_text(text) == [j \in 1..Len(text) |-> lower(text[j])]

\* what an operator may do at the confirmation prompt
ConfirmInputs(s, total, region_id) ==
    LET phrase == ConfirmationPhrase(s, total, region_id)
    IN  {Line(phrase), Line(lower_text(phrase)), Line(Append(phrase, "")),
         Line(<<"DELETE", NumStr(total + 1), upper(item_type(s))>>),
         Line(default_confirmation_text(item_type(s), total)),
         Line(<<"yes">>), Line(<<>>), EOFError, KeyboardInterrupt}

ProductionInputs == {Line(ProductionText), Line(<<"yes">>), EOFError}

\* --------------------------------------------------- state
VARIABLES
    script,         \* which entry point runs
    argv,           \* parsed command line
    environ,        \* os.environ
    cfgfile,        \* the YAML config file
    config,         \* Config: auditboard, safety, deletion
    client,         \* AuditBoardClient: max_retries, retry_delay
    dry_run,        \* main()'s dry_run
    pc,             \* position in the entry point
    req,            \* the _make_request call in progress or last finished
    http,           \* the HTTP methods sent so far
    httpDeleteIds,  \* ids an HTTP DELETE was sent for
    httpGets,       \* resources an HTTP GET was sent for
    k,              \* index into argv.ids while resolving; step of analyze_region
    targets,        \* resolved records
    fetched,        \* all_entities / all_processes of the dependency check
    i,              \* enumerate(..., 1) index of the delete loop
    results,        \* the results dict
    deleteCalls,    \* ids passed to client.delete_*, in call order
    outcomes,       \* final status of each client.delete_* (0: exception)
    userInput,      \* what was entered at the confirmation prompt
    countdownSlept, \* the countdown sleep ran to its end
    paceSleeps,     \* loop indices after which the rate-limit sleep ran
    exitCode,       \* process exit code, -1 while running
    files,          \* reports written by save_results
    clientResult    \* what a direct get/post/delete call gave its caller

vars == <<script, argv, environ, cfgfile, config, client, dry_run, pc,
          req, http, httpDeleteIds, httpGets, k, targets, fetched, i, results,
          deleteCalls, outcomes, userInput, countdownSlept, paceSleeps,
          exitCode, files, clientResult>>

inputVars == <<script, argv, environ, cfgfile>>
setupVars == <<config, client, dry_run>>
httpVars == <<http, httpDeleteIds, httpGets>>
loopVars == <<deleteCalls, outcomes, paceSleeps>>

NoInput == [kind |-> "none", text |-> <<>>]
NothingFetched == [entities |-> <<>>, processes |-> <<>>, children |-> <<>>]
NoResult == [raised |-> "not called"]
Running == -1

Init ==
    /\ script \in Scripts
    /\ argv \in [live : BOOLEAN, dry_run_flag : {FALSE}, force : BOOLEAN,
                 ids : IdLists \cup {<<>>}, region_id : RegionIds,
                 type : {"none", "region"}]
    /\ argv.type = IF script = "find_dependencies" THEN "region" ELSE "none"
    /\ script \in BulkScripts =>
          /\ argv.ids # <<>>
          /\ ~ argv.force
          /\ argv.region_id = 1
    /\ script \notin BulkScripts => argv.ids = <<>>
    /\ script \in {"find_dependencies", "client"} => ~ argv.live /\ ~ argv.force
    /\ script = "client" => argv.region_id = 1
    /\ environ \in [DRY_RUN : {"unset", "false"}]
    /\ cfgfile \in ConfigFiles
    /\ (script \notin {"delete_controls", "delete_region"} \/ ~ argv.live)
          => cfgfile.sandbox
    /\ config = LoadConfig(NoFile, [DRY_RUN |-> "unset"])
    /\ client = [max_retries |-> DefaultMaxRetries, retry_delay |-> DefaultRetryDelay]
    /\ dry_run = TRUE
    /\ pc = "main"
    /\ req = NoRequest
    /\ http = {}
    /\ httpDeleteIds = {}
    /\ httpGets = {}
    /\ k = 1
    /\ targets = <<>>
    /\ fetched = NothingFetched
    /\ i = 1
    /\ results = <<>>
    /\ deleteCalls = <<>>
    /\ outcomes = <<>>
    /\ userInput = NoInput
    /\ countdownSlept = FALSE
    /\ paceSleeps = <<>>
    /\ exitCode = Running
    /\ files = <<>>
    /\ clientResult = NoResult

\* --------------------------------------------------- actions
Finished == req.state \in {"returned", "raised", "interrupted"}

Total == Len(targets)

\* main() up to the first request: mode, configuration, client, and for
\* delete_controls and delete_region the production prompt.
Main ==
    /\ pc = "main"
    /\ script \in Scripts \cup {"analyze_region"}
    /\ config' = LoadConfig(cfgfile, environ)
    /\ client' = NewClient(script, LoadConfig(cfgfile, environ).auditboard)
    /\ dry_run' = IF script \in DeletionScripts THEN DryRunMode(argv, environ) ELSE dry_run
    /\ CASE script = "client" ->
              /\ pc' = "client_call"
              /\ UNCHANGED <<req, exitCode>>
         [] script = "find_dependencies" /\ argv.type = "region" ->
              /\ pc' = "deps_entities"
              /\ req' = NewRequest("GET", "entities", FALSE, 0)
              /\ UNCHANGED exitCode
         [] script = "find_dependencies" /\ argv.type # "region" ->
              /\ pc' = "deps_children"
              /\ req' = NewRequest("GET", child_resource(argv.type), FALSE, 0)
              /\ UNCHANGED exitCode
         [] script = "analyze_region" ->
              /\ pc' = "an_region"
              /\ req' = NewRequest("GET", "regions", TRUE, argv.region_id)
              /\ UNCHANGED exitCode
         [] script \in {"delete_controls", "delete_region"} /\ ~ dry_run' ->
              \E inp \in ProductionInputs :
                 /\ IF confirm_production(dry_run', cfgfile.sandbox, inp)
                    THEN pc' = "resolve" /\ UNCHANGED exitCode
                    ELSE pc' = "exit" /\ exitCode' = 1
                 /\ UNCHANGED req
         [] OTHER ->
              /\ pc' = "resolve"
              /\ UNCHANGED <<req, exitCode>>
    /\ UNCHANGED <<inputVars, httpVars, loopVars, k, targets, fetched, i, results,
                   userInput, countdownSlept, files, clientResult>>

\* get_controls_by_ids / the fetch loop of delete_*_bulk / delete_region:
\* the next per-id GET is issued
StartLookup ==
    /\ pc = "resolve"
    /\ IF script = "delete_region"
       THEN req' = NewRequest("GET", "regions", TRUE, argv.region_id)
       ELSE /\ k <= Len(argv.ids)
            /\ req' = NewRequest("GET", item_type(script), TRUE, argv.ids[k])
    /\ pc' = "resolve_wait"
    /\ UNCHANGED <<inputVars, setupVars, httpVars, loopVars, k, targets, fetched, i,
                   results, userInput, countdownSlept, exitCode, files, clientResult>>

\* requests.request inside _make_request: one HTTP attempt and what follows
\* it up to the next attempt or the return
HttpAttempt ==
    /\ req.state = "pending"
    /\ \E out \in ServerOutcomes(req) : req' = _make_request(req, client, out)
    /\ http' = http \cup {req.method}
    /\ httpDeleteIds' = IF req.method = "DELETE" THEN httpDeleteIds \cup {req.id}
                        ELSE httpDeleteIds
    /\ httpGets' = IF req.method = "GET" THEN httpGets \cup {req.resource} ELSE httpGets
    /\ UNCHANGED <<inputVars, setupVars, loopVars, pc, k, targets, fetched, i, results,
                   userInput, countdownSlept, exitCode, files, clientResult>>

\* Ctrl+C during the backoff sleep of _make_request: nothing catches it there
BackoffInterrupted ==
    /\ req.state = "pending"
    /\ \E out \in ServerOutcomes(req) : sleeps_after(req, client, out)
    /\ req' = [req EXCEPT !.attempts = @ + 1, !.state = "interrupted"]
    /\ http' = http \cup {req.method}
    /\ httpDeleteIds' = IF req.method = "DELETE" THEN httpDeleteIds \cup {req.id}
                        ELSE httpDeleteIds
    /\ httpGets' = IF req.method = "GET" THEN httpGets \cup {req.resource} ELSE httpGets
    /\ UNCHANGED <<inputVars, setupVars, loopVars, pc, k, targets, fetched, i, results,
                   userInput, countdownSlept, exitCode, files, clientResult>>

\* an exception nobody catches ends the process: 130 for KeyboardInterrupt,
\* 1 for the others
UncaughtExit(rq, raised) ==
    IF rq.state = "interrupted" THEN ExitInterrupted
    ELSE IF raised # "none" THEN 1
    ELSE Running

\* (a fetch loop that keeps the id whatever the lookup returned)
LookupDone_keeps_absent ==
    /\ pc = "resolve_wait"
    /\ script \in BulkScripts
    /\ Finished
    /\ LET r == get_one(req)
           code == UncaughtExit(req, r.raised)
       IN  IF code # Running
           THEN /\ pc' = "exit"
                /\ exitCode' = code
                /\ UNCHANGED <<k, targets, req>>
           ELSE /\ req' = NoRequest
                /\ targets' = Append(targets, [id |-> req.id])
                /\ k' = k + 1
                /\ pc' = "resolve"
                /\ UNCHANGED exitCode
    /\ UNCHANGED <<inputVars, setupVars, httpVars, loopVars, fetched, i, results,
                   userInput, countdownSlept, files, clientResult>>

\* get_control / get_entity / ... returned to the fetch loop
LookupDone ==
    /\ pc = "resolve_wait"
    /\ script \in BulkScripts
    /\ Finished
    /\ LET r == get_one(req)
           code == UncaughtExit(req, r.raised)
       IN  IF code # Running
           THEN /\ pc' = "exit"
                /\ exitCode' = code
                /\ UNCHANGED <<k, targets, req>>
           ELSE /\ req' = NoRequest
                /\ targets' = IF r.found THEN Append(targets, [id |-> req.id])
                              ELSE targets
                /\ k' = k + 1
                /\ pc' = "resolve"
                /\ UNCHANGED exitCode
    /\ UNCHANGED <<inputVars, setupVars, httpVars, loopVars, fetched, i, results,
                   userInput, countdownSlept, files, clientResult>>

\* delete_*_bulk from the empty test to the prompt or the loop
EnterBulk ==
    /\ pc = "resolve"
    /\ script \in BulkScripts
    /\ k > Len(argv.ids)
    /\ IF targets = <<>>
       THEN results' = EmptyResult(script, dry_run) /\ pc' = "returned"
       ELSE IF dry_run
       THEN results' = NewResults(script, dry_run, Total) /\ pc' = "loop"
       ELSE pc' = "confirm" /\ UNCHANGED results
    /\ UNCHANGED <<inputVars, setupVars, httpVars, loopVars, req, k, targets, fetched,
                   i, userInput, countdownSlept, exitCode, files, clientResult>>

\* safety.confirm_deletion in live mode, and sys.exit(0) when it returns False
Confirm ==
    /\ pc = "confirm"
    /\ LET n == IF script = "delete_region" THEN 1 ELSE Total
       IN  \E inp \in ConfirmInputs(script, n, argv.region_id) :
              /\ userInput' = inp
              /\ IF confirm_deletion(dry_run, item_type(script), n,
                                     confirmation_text_arg(script, n, argv.region_id),
                                     FALSE, inp)
                 THEN pc' = "countdown" /\ UNCHANGED exitCode
                 ELSE pc' = "exit" /\ exitCode' = 0
    /\ UNCHANGED <<inputVars, setupVars, httpVars, loopVars, req, k, targets, fetched,
                   i, results, countdownSlept, files, clientResult>>

\* safety.countdown_warning: the sleep runs to its end
Countdown ==
    /\ pc = "countdown"
    /\ countdownSlept' = TRUE
    /\ IF script = "delete_region"
       THEN pc' = "region_delete" /\ UNCHANGED results
       ELSE pc' = "loop" /\ results' = NewResults(script, dry_run, Total)
    /\ UNCHANGED <<inputVars, setupVars, httpVars, loopVars, req, k, targets, fetched,
                   i, userInput, exitCode, files, clientResult>>

\* (a countdown whose sleep is outside the try)
CountdownInterrupted_uncaught ==
    /\ pc = "countdown"
    /\ pc' = "exit"
    /\ exitCode' = ExitInterrupted
    /\ UNCHANGED <<inputVars, setupVars, httpVars, loopVars, req, k, targets, fetched,
                   i, results, userInput, countdownSlept, files, clientResult>>

\* safety.countdown_warning: Ctrl+C during the sleep, sys.exit(0)
CountdownInterrupted ==
    /\ pc = "countdown"
    /\ pc' = "exit"
    /\ exitCode' = 0
    /\ UNCHANGED <<inputVars, setupVars, httpVars, loopVars, req, k, targets, fetched,
                   i, results, userInput, countdownSlept, files, clientResult>>

\* final status of a finished request, 0 when it raised
FinalStatus(rq) == IF rq.state = "raised" THEN 0 ELSE rq.response.status_code

\* the delete loop reaches item i: dry-run records it, live mode calls
\* client.delete_*
LoopItem_no_dry_branch ==
    /\ pc = "loop"
    /\ i <= Total
    /\ req' = NewRequest("DELETE", item_type(script), TRUE, targets[i].id)
    /\ deleteCalls' = Append(deleteCalls, targets[i].id)
    /\ pc' = "delete_wait"
    /\ UNCHANGED <<results, i>>
    /\ UNCHANGED <<inputVars, setupVars, httpVars, outcomes, paceSleeps, k, targets,
                   fetched, userInput, countdownSlept, exitCode, files, clientResult>>

LoopItem ==
    /\ pc = "loop"
    /\ i <= Total
    /\ IF dry_run
       THEN /\ results' = [results EXCEPT !.deleted = Append(@, [id |-> targets[i].id])]
            /\ i' = i + 1
            /\ UNCHANGED <<pc, req, deleteCalls>>
       ELSE /\ req' = NewRequest("DELETE", item_type(script), TRUE, targets[i].id)
            /\ deleteCalls' = Append(deleteCalls, targets[i].id)
            /\ pc' = "delete_wait"
            /\ UNCHANGED <<results, i>>
    /\ UNCHANGED <<inputVars, setupVars, httpVars, outcomes, paceSleeps, k, targets,
                   fetched, userInput, countdownSlept, exitCode, files, clientResult>>

\* client.delete_* came back (or raised) inside the try of the loop body
DeleteDone ==
    /\ pc = "delete_wait"
    /\ Finished
    /\ IF req.state = "interrupted"
       THEN /\ pc' = "exit"
            /\ exitCode' = ExitInterrupted
            /\ UNCHANGED <<results, outcomes, i, req>>
       ELSE /\ req' = NoRequest
            /\ results' = Classify(results, req, targets[i].id)
            /\ outcomes' = Append(outcomes, FinalStatus(req))
            /\ IF pause_after(i, Total, config.deletion.pause_every_n, dry_run)
               THEN pc' = "pace" /\ UNCHANGED i
               ELSE pc' = "loop" /\ i' = i + 1
            /\ UNCHANGED exitCode
    /\ UNCHANGED <<inputVars, setupVars, httpVars, deleteCalls, paceSleeps, k,
                   targets, fetched, userInput, countdownSlept, files, clientResult>>

\* time.sleep(rate_limit_delay) after item i runs to its end
Pace ==
    /\ pc = "pace"
    /\ paceSleeps' = Append(paceSleeps, i)
    /\ i' = i + 1
    /\ pc' = "loop"
    /\ UNCHANGED <<inputVars, setupVars, httpVars, deleteCalls, outcomes, req, k,
                   targets, fetched, results, userInput, countdownSlept, exitCode,
                   files, clientResult>>

\* Ctrl+C during the rate-limit sleep: outside every try, the process dies
PaceInterrupted ==
    /\ pc = "pace"
    /\ pc' = "exit"
    /\ exitCode' = ExitInterrupted
    /\ UNCHANGED <<inputVars, setupVars, httpVars, loopVars, req, k, targets, fetched,
                   i, results, userInput, countdownSlept, files, clientResult>>

\* the loop is exhausted: summary, return results
LoopEnd ==
    /\ pc = "loop"
    /\ i > Total
    /\ pc' = "returned"
    /\ UNCHANGED <<inputVars, setupVars, httpVars, loopVars, req, k, targets, fetched,
                   i, results, userInput, countdownSlept, exitCode, files, clientResult>>

\* delete_region after get_region: not found, dependency check, or the gate
RegionLookupDone ==
    /\ pc = "resolve_wait"
    /\ script = "delete_region"
    /\ Finished
    /\ LET r == get_one(req)
           code == UncaughtExit(req, r.raised)
       IN  IF code # Running
           THEN pc' = "exit" /\ exitCode' = code /\ UNCHANGED <<req, results, targets>>
           ELSE /\ UNCHANGED exitCode
                /\ IF ~ r.found
                   THEN /\ results' = RegionNotFound(dry_run)
                        /\ pc' = "returned"
                        /\ req' = NoRequest /\ UNCHANGED targets
                   ELSE /\ targets' = <<[id |-> req.id]>>
                        /\ UNCHANGED results
                        /\ IF ~ argv.force
                           THEN /\ req' = NewRequest("GET", "entities", FALSE, 0)
                                /\ pc' = "deps_entities"
                           ELSE /\ pc' = IF dry_run THEN "region_delete" ELSE "confirm"
                                /\ req' = NoRequest
    /\ UNCHANGED <<inputVars, setupVars, httpVars, loopVars, k, fetched, i, userInput,
                   countdownSlept, files, clientResult>>

\* check_region_dependencies: client.get_entities() came back
DepsEntitiesDone ==
    /\ pc = "deps_entities"
    /\ Finished
    /\ LET r == get_list(req)
           code == UncaughtExit(req, r.raised)
       IN  IF code # Running
           THEN pc' = "exit" /\ exitCode' = code /\ UNCHANGED <<req, fetched>>
           ELSE /\ fetched' = [fetched EXCEPT !.entities = r.list]
                /\ req' = NewRequest("GET", "processes", FALSE, 0)
                /\ pc' = "deps_processes"
                /\ UNCHANGED exitCode
    /\ UNCHANGED <<inputVars, setupVars, httpVars, loopVars, k, targets, i, results,
                   userInput, countdownSlept, files, clientResult>>

\* check_region_dependencies: client.get_processes() came back; the checker
\* returns, and delete_region aborts or goes on to the gate
DepsProcessesDone ==
    /\ pc = "deps_processes"
    /\ Finished
    /\ LET r == get_list(req)
           code == UncaughtExit(req, r.raised)
       IN  IF code # Running
           THEN pc' = "exit" /\ exitCode' = code /\ UNCHANGED <<fetched, results, req>>
           ELSE /\ req' = NoRequest
                /\ fetched' = [fetched EXCEPT !.processes = r.list]
                /\ UNCHANGED exitCode
                /\ IF script = "find_dependencies"
                   THEN /\ results' = fd_check_region_dependencies(argv.region_id,
                                          fetched.entities, r.list)
                        /\ pc' = "returned"
                   ELSE LET c == check_region_dependencies(argv.region_id,
                                          fetched.entities, r.list)
                        IN  IF ~ c.safe
                            THEN /\ results' = RegionBlocked(dry_run, c.dependencies)
                                 /\ pc' = "returned"
                            ELSE /\ pc' = IF dry_run THEN "region_delete" ELSE "confirm"
                                 /\ UNCHANGED results
    /\ UNCHANGED <<inputVars, setupVars, httpVars, loopVars, k, targets, i,
                   userInput, countdownSlept, files, clientResult>>

\* check_entity / check_process / check_subprocess_dependencies: the one
\* collection the checker reads came back; the checker returns its report
DepsChildrenDone ==
    /\ pc = "deps_children"
    /\ Finished
    /\ LET r == get_list(req)
           code == UncaughtExit(req, r.raised)
       IN  IF code # Running
           THEN pc' = "exit" /\ exitCode' = code /\ UNCHANGED <<fetched, results, req>>
           ELSE /\ req' = NoRequest
                /\ fetched' = [fetched EXCEPT !.children = r.list]
                /\ results' = check_dependencies(argv.type, argv.ids, r.list)
                /\ pc' = "returned"
                /\ UNCHANGED exitCode
    /\ UNCHANGED <<inputVars, setupVars, httpVars, loopVars, k, targets, i,
                   userInput, countdownSlept, files, clientResult>>

\* delete_region: the results dict is created; dry-run reports success, live
\* mode calls client.delete_region
RegionDelete ==
    /\ pc = "region_delete"
    /\ IF dry_run
       THEN /\ results' = [NewRegionResults(dry_run, argv.region_id) EXCEPT !.success = TRUE]
            /\ pc' = "returned"
            /\ UNCHANGED <<req, deleteCalls>>
       ELSE /\ results' = NewRegionResults(dry_run, argv.region_id)
            /\ req' = NewRequest("DELETE", "regions", TRUE, argv.region_id)
            /\ deleteCalls' = Append(deleteCalls, argv.region_id)
            /\ pc' = "region_wait"
    /\ UNCHANGED <<inputVars, setupVars, httpVars, outcomes, paceSleeps, k, targets,
                   fetched, i, userInput, countdownSlept, exitCode, files, clientResult>>

\* client.delete_region came back (or raised) inside the try
RegionDeleteDone ==
    /\ pc = "region_wait"
    /\ Finished
    /\ IF req.state = "interrupted"
       THEN pc' = "exit" /\ exitCode' = ExitInterrupted /\ UNCHANGED <<results, outcomes, req>>
       ELSE /\ req' = NoRequest
            /\ LET d == client_delete(req)
               IN  results' =
                     IF d.raised = "none" /\ d.value
                     THEN [results EXCEPT !.success = TRUE]
                     ELSE IF d.raised = "none"
                     THEN results @@ [error |-> "API deletion failed"]
                     ELSE results @@ [error |-> str_error(req)]
            /\ outcomes' = Append(outcomes, FinalStatus(req))
            /\ pc' = "returned"
            /\ UNCHANGED exitCode
    /\ UNCHANGED <<inputVars, setupVars, httpVars, deleteCalls, paceSleeps, k,
                   targets, fetched, i, userInput, countdownSlept, files, clientResult>>

\* main() after the driver returned: save_results, then the exit code
Save ==
    /\ pc = "returned"
    /\ files' = Append(files, results)
    /\ exitCode' = exit_code(script, results)
    /\ pc' = "exit"
    /\ UNCHANGED <<inputVars, setupVars, httpVars, loopVars, req, k, targets, fetched,
                   i, results, userInput, countdownSlept, clientResult>>

\* the methods of AuditBoardClient a caller may call, and the HTTP method of each
ClientCalls == {"get", "post", "delete", "get_control"}

http_method(call) ==
    CASE call = "post" -> "POST"
      [] call = "delete" -> "DELETE"
      [] OTHER -> "GET"

\* a caller of the client library calls get, post, delete or a per-id accessor
ClientCall ==
    /\ pc = "client_call"
    /\ \E call \in ClientCalls, byid \in BOOLEAN :
          /\ call # "get" => byid
          /\ req' = NewRequest(http_method(call), "controls", byid, 1)
          /\ clientResult' = [raised |-> "in call", call |-> call]
    /\ pc' = "client_wait"
    /\ UNCHANGED <<inputVars, setupVars, httpVars, loopVars, k, targets, fetched, i,
                   results, userInput, countdownSlept, exitCode, files>>

\* the call hands its result, or its exception, to the caller
ClientReturn ==
    /\ pc = "client_wait"
    /\ req.state \in {"returned", "raised"}
    /\ clientResult' = [call |-> clientResult.call] @@
                        CASE clientResult.call = "get" -> client_get(req)
                          [] clientResult.call = "post" -> client_post(req)
                          [] clientResult.call = "delete" -> client_delete(req)
                          [] OTHER -> get_one(req)
    /\ pc' = "exit"
    /\ exitCode' = 0
    /\ UNCHANGED <<inputVars, setupVars, httpVars, loopVars, req, k, targets, fetched,
                   i, results, userInput, countdownSlept, files>>

\* --------------------------------------------------- discovery/analyze_region.py
None == <<>>

\* list(set(ids)): for small non-negative integers CPython iterates a set in
\* increasing order
list_set(S) ==
    [j \in 1..Cardinality(S) |-> CHOOSE x \in S : Cardinality({y \in S : y < x}) = j - 1]

\* next((r for r in records if r.get('id') == id), None)
next_with_id(records, id) ==
    IF \E j \in 1..Len(records) : records[j].id = id
    THEN records[CHOOSE j \in 1..Len(records) :
                    /\ records[j].id = id
                    /\ \A h \in 1..(j - 1) : records[h].id # id]
    ELSE None

\* the state dict analyze_region starts from
analyze_state(region_id) ==
    [timestamp |-> "now", region_id |-> region_id, region |-> None,
     entities |-> <<>>, processes |-> <<>>, subprocesses |-> <<>>, controls |-> <<>>,
     processes_data |-> <<>>, subprocesses_data |-> <<>>, controls_data |-> <<>>,
     summary |-> <<>>]

\* the id lists the steps compute from the state
entity_ids(state) == [j \in 1..Len(state.entities) |-> state.entities[j].id]

process_ids(state) ==
    list_set({state.processes_data[j].process_id : j \in 1..Len(state.processes_data)})

processes_data_ids(state) ==
    [j \in 1..Len(state.processes_data) |-> state.processes_data[j].id]

subprocess_ids(state) ==
    list_set({state.subprocesses_data[j].subprocess_id :
                 j \in 1..Len(state.subprocesses_data)})

control_ids(state) == [j \in 1..Len(state.controls) |-> state.controls[j].id]

\* Step 2: the entities of the region
step_entities(state, all_entities) ==
    LET region_entities ==
            SelectSeq(all_entities, LAMBDA e : e.region_id = state.region_id)
    IN  [state EXCEPT !.entities =
            [j \in 1..Len(region_entities) |->
                [id |-> region_entities[j].id,
                 region_id |-> region_entities[j].region_id]]]

\* (Step 3 keeping every link the server returned)
step_processes_data_unfiltered(state, all_pd) ==
    [state EXCEPT !.processes_data =
        [j \in 1..Len(all_pd) |->
            [id |-> all_pd[j].id, entity_id |-> all_pd[j].entity_id,
             process_id |-> all_pd[j].process_id]]]

\* Step 3: processes_data of these entities
step_processes_data(state, all_pd) ==
    LET region_pd ==
            SelectSeq(all_pd, LAMBDA pd : InList(pd.entity_id, entity_ids(state)))
    IN  [state EXCEPT !.processes_data =
            [j \in 1..Len(region_pd) |->
                [id |-> region_pd[j].id, entity_id |-> region_pd[j].entity_id,
                 process_id |-> region_pd[j].process_id]]]

\* Step 4: the processes the links name, those the server knows
step_processes(state, all_processes) ==
    LET found == SelectSeq(process_ids(state),
                           LAMBDA proc_id : next_with_id(all_processes, proc_id) # None)
    IN  [state EXCEPT !.processes =
            [j \in 1..Len(found) |->
                LET proc == next_with_id(all_processes, found[j])
                IN  [id |-> proc.id, region_id |-> proc.region_id]]]

\* Step 5: subprocesses_data of these processes_data
step_subprocesses_data(state, all_spd) ==
    LET region_spd ==
            SelectSeq(all_spd, LAMBDA spd :
                InList(spd.processes_datum_id, processes_data_ids(state)))
    IN  [state EXCEPT !.subprocesses_data =
            [j \in 1..Len(region_spd) |->
                [id |-> region_spd[j].id,
                 processes_datum_id |-> region_spd[j].processes_datum_id,
                 subprocess_id |-> region_spd[j].subprocess_id]]]

\* Step 6: the subprocesses the links name, those the server knows
step_subprocesses(state, all_subprocesses) ==
    LET found == SelectSeq(subprocess_ids(state),
                           LAMBDA sp_id : next_with_id(all_subprocesses, sp_id) # None)
    IN  [state EXCEPT !.subprocesses =
            [j \in 1..Len(found) |->
                LET sp == next_with_id(all_subprocesses, found[j])
                IN  [id |-> sp.id, process_id |-> sp.process_id]]]

\* Step 7: the controls of these subprocess ids
step_controls(state, all_controls) ==
    LET region_controls ==
            SelectSeq(all_controls, LAMBDA c :
                InList(c.subprocess_id, subprocess_ids(state)))
    IN  [state EXCEPT !.controls =
            [j \in 1..Len(region_controls) |->
                [id |-> region_controls[j].id,
                 subprocess_id |-> region_controls[j].subprocess_id]]]

\* Step 8: controls_data of these controls
step_controls_data(state, all_cd) ==
    LET region_cd ==
            SelectSeq(all_cd, LAMBDA cd : InList(cd.control_id, control_ids(state)))
    IN  [state EXCEPT !.controls_data =
            [j \in 1..Len(region_cd) |->
                [id |-> region_cd[j].id, control_id |-> region_cd[j].control_id,
                 subprocesses_datum_id |-> region_cd[j].subprocesses_datum_id]]]

\* the summary of the state
analyze_summary(state) ==
    [state EXCEPT !.summary =
        [region |-> state.region_id,
         entities_count |-> Len(state.entities),
         processes_count |-> Len(state.processes),
         subprocesses_count |-> Len(state.subprocesses),
         controls_count |-> Len(state.controls),
         controls_data_count |-> Len(state.controls_data),
         processes_data_count |-> Len(state.processes_data),
         subprocesses_data_count |-> Len(state.subprocesses_data)]]

\* the steps that read a collection
Steps == 2..8

\* the collection step n reads
step_resource(n) ==
    CASE n = 2 -> "entities"
      [] n = 3 -> "processes_data"
      [] n = 4 -> "processes"
      [] n = 5 -> "subprocesses_data"
      [] n = 6 -> "subprocesses"
      [] n = 7 -> "controls"
      [] OTHER -> "controls_data"

\* (steps that fetch whatever the level above gave)
step_fetches_always(n, state) == TRUE

\* the test under which step n fetches its collection
step_fetches(n, state) ==
    CASE n = 2 -> TRUE
      [] n = 3 -> entity_ids(state) # <<>>
      [] n = 4 -> process_ids(state) # <<>>
      [] n = 5 -> processes_data_ids(state) # <<>>
      [] n = 6 -> subprocess_ids(state) # <<>>
      [] n = 7 -> subprocess_ids(state) # <<>>
      [] OTHER -> control_ids(state) # <<>>

\* what step n does with the collection
step_update(n, state, collection) ==
    CASE n = 2 -> step_entities(state, collection)
      [] n = 3 -> step_processes_data(state, collection)
      [] n = 4 -> step_processes(state, collection)
      [] n = 5 -> step_subprocesses_data(state, collection)
      [] n = 6 -> step_subprocesses(state, collection)
      [] n = 7 -> step_controls(state, collection)
      [] OTHER -> step_controls_data(state, collection)

\* (a lookup failure that is reported like a region without entities)
AnalyzeRegionDone_goes_on ==
    /\ pc = "an_region"
    /\ Finished
    /\ LET r == get_one(req)
           code == UncaughtExit(req, r.raised)
       IN  IF code # Running
           THEN pc' = "exit" /\ exitCode' = code /\ UNCHANGED <<req, results, k>>
           ELSE /\ req' = NoRequest
                /\ UNCHANGED exitCode
                /\ results' = analyze_state(argv.region_id)
                /\ k' = 2
                /\ pc' = "an_step"
    /\ UNCHANGED <<inputVars, setupVars, httpVars, loopVars, targets, fetched, i,
                   userInput, countdownSlept, files, clientResult>>

\* Step 1: client.get_region came back; without a region the state is
\* returned as it is
AnalyzeRegionDone ==
    /\ pc = "an_region"
    /\ Finished
    /\ LET r == get_one(req)
           code == UncaughtExit(req, r.raised)
       IN  IF code # Running
           THEN pc' = "exit" /\ exitCode' = code /\ UNCHANGED <<req, results, k>>
           ELSE /\ req' = NoRequest
                /\ UNCHANGED exitCode
                /\ IF r.found
                   THEN /\ results' = [analyze_state(argv.region_id)
                                          EXCEPT !.region = [id |-> req.id]]
                        /\ k' = 2
                        /\ pc' = "an_step"
                   ELSE /\ results' = analyze_state(argv.region_id)
                        /\ pc' = "returned"
                        /\ UNCHANGED k
    /\ UNCHANGED <<inputVars, setupVars, httpVars, loopVars, targets, fetched, i,
                   userInput, countdownSlept, files, clientResult>>

\* steps 2..8: the step fetches its collection, or is skipped
AnalyzeStep ==
    /\ pc = "an_step"
    /\ k \in Steps
    /\ IF step_fetches(k, results)
       THEN /\ req' = NewRequest("GET", step_resource(k), FALSE, 0)
            /\ pc' = "an_wait"
            /\ UNCHANGED k
       ELSE /\ k' = k + 1
            /\ UNCHANGED <<req, pc>>
    /\ UNCHANGED <<inputVars, setupVars, httpVars, loopVars, targets, fetched, i,
                   results, userInput, countdownSlept, exitCode, files, clientResult>>

\* steps 2..8: the collection came back and is filtered into the state
AnalyzeFetched ==
    /\ pc = "an_wait"
    /\ Finished
    /\ LET r == get_list(req)
           code == UncaughtExit(req, r.raised)
       IN  IF code # Running
           THEN pc' = "exit" /\ exitCode' = code /\ UNCHANGED <<req, results, k>>
           ELSE /\ req' = NoRequest
                /\ results' = step_update(k, results, r.list)
                /\ k' = k + 1
                /\ pc' = "an_step"
                /\ UNCHANGED exitCode
    /\ UNCHANGED <<inputVars, setupVars, httpVars, loopVars, targets, fetched, i,
                   userInput, countdownSlept, files, clientResult>>

\* the summary, and the state is returned
AnalyzeSummary ==
    /\ pc = "an_step"
    /\ k \notin Steps
    /\ results' = analyze_summary(results)
    /\ pc' = "returned"
    /\ UNCHANGED <<inputVars, setupVars, httpVars, loopVars, req, k, targets, fetched,
                   i, userInput, countdownSlept, exitCode, files, clientResult>>

\* --------------------------------------------------- verification/verify_restoration.py
\* JSON values of a record's fields: a value v is <<v>>, null is None
Some(v) == <<v>>

\* dict.get(field): None for a key the dict does not have
dict_get(d, field) == IF field \in DOMAIN d THEN d[field] ELSE None

IdValues == {Some(v) : v \in Ids}

\* records of the original file: id, and name and uid when the file has them
\* (null included)
OriginalRecords ==
    [id : IdValues]
    \cup [id : IdValues, name : {None, Some("X")}]
    \cup [id : IdValues, uid : {None, Some("U")}]
    \cup [id : IdValues, name : {None, Some("X")}, uid : {None, Some("U")}]

OriginalData == UNION {[1..n -> OriginalRecords] : n \in 0..MaxOriginals}

\* what --original-file holds: a list, or a dict with the list under a key
OriginalFiles ==
    [format : {"list", "deleted", "entities", "other"}, data : OriginalData]

\* records the server may return for an id
RestoredRecords ==
    [id : IdValues, name : {Some("X"), Some("Y")}]
    \cup [id : IdValues, name : {Some("X"), Some("Y")}, uid : {Some("U"), Some("V")}]
    \cup [id : IdValues, uid : {Some("U"), Some("V")}]
    \cup [name : {Some("X"), Some("Y")}]
    \cup [id : IdValues, name : {None}]

key_fields == <<"uid", "region_id", "entity_type_id", "process_id", "subprocess_id">>

\* (a comparison that also looks at the key fields only the restored record has)
compare_entity_either_side(original, restored) ==
    LET differs(f) == dict_get(original, f) # dict_get(restored, f)
        compared == SelectSeq(key_fields,
                              LAMBDA f : f \in DOMAIN original \/ f \in DOMAIN restored)
        item(f) == [field |-> f, original |-> dict_get(original, f),
                    restored |-> dict_get(restored, f)]
        changed == SelectSeq(compared, differs)
        same == SelectSeq(compared, LAMBDA f : ~ differs(f))
    IN  [raised |-> "none",
         matches |->
            (IF differs("id") THEN <<>> ELSE <<item("id")>>)
            \o (IF differs("name") THEN <<>> ELSE <<item("name")>>)
            \o [j \in 1..Len(same) |-> item(same[j])],
         differences |->
            (IF differs("id") THEN <<item("id")>> ELSE <<>>)
            \o (IF differs("name") THEN <<[field |-> "name"]>> ELSE <<>>)
            \o [j \in 1..Len(changed) |-> item(changed[j])]]

\* compare_entity: id and name are always compared, a key field only when
\* the original has it; the name match line slices the original name
compare_entity(original, restored) ==
    LET differs(f) == dict_get(original, f) # dict_get(restored, f)
        compared == SelectSeq(key_fields, LAMBDA f : f \in DOMAIN original)
        item(f) == [field |-> f, original |-> dict_get(original, f),
                    restored |-> dict_get(restored, f)]
        changed == SelectSeq(compared, differs)
        same == SelectSeq(compared, LAMBDA f : ~ differs(f))
    IN  IF ~ differs("name") /\ "name" \in DOMAIN original /\ original.name = None
        THEN [raised |-> "TypeError", matches |-> <<>>, differences |-> <<>>]
        ELSE [raised |-> "none",
              matches |->
                 (IF differs("id") THEN <<>> ELSE <<item("id")>>)
                 \o (IF differs("name") THEN <<>> ELSE <<item("name")>>)
                 \o [j \in 1..Len(same) |-> item(same[j])],
              differences |->
                 (IF differs("id") THEN <<item("id")>> ELSE <<>>)
                 \o (IF differs("name") THEN <<[field |-> "name"]>> ELSE <<>>)
                 \o [j \in 1..Len(changed) |-> item(changed[j])]]

\* original.get('name', original.get('uid', 'N/A')), what the loop slices
display_name(original) ==
    IF "name" \in DOMAIN original THEN original.name
    ELSE IF "uid" \in DOMAIN original THEN original.uid
    ELSE Some("N/A")

\* the results verify_restoration starts from
verify_results(entity_type) ==
    [perfect_restoration |-> TRUE, entity_type |-> entity_type, entities |-> <<>>]

not_found(res, entity_id) ==
    [res EXCEPT !.perfect_restoration = FALSE,
                !.entities = Append(@, [id |-> entity_id, status |-> "NOT_FOUND",
                                        matches |-> <<>>, differences |-> <<>>])]

\* (a verification whose verdict is that of the last record)
compared_last_wins(res, original, restored, cmp) ==
    [res EXCEPT !.perfect_restoration = (cmp.differences = <<>>),
                !.entities =
                    Append(@, [id |-> dict_get(original, "id"),
                               status |-> IF cmp.differences = <<>> THEN "PERFECT"
                                          ELSE "PARTIAL",
                               matches |-> cmp.matches,
                               differences |-> cmp.differences,
                               original |-> original, restored |-> restored])]

compared(res, original, restored, cmp) ==
    [res EXCEPT !.perfect_restoration = IF cmp.differences # <<>> THEN FALSE ELSE @,
                !.entities =
                    Append(@, [id |-> dict_get(original, "id"),
                               status |-> IF cmp.differences = <<>> THEN "PERFECT"
                                          ELSE "PARTIAL",
                               matches |-> cmp.matches,
                               differences |-> cmp.differences,
                               original |-> original, restored |-> restored])]

\* main() of verify_restoration up to the loop: the original file is read
\* first, then configuration and client
VerifyMain ==
    /\ pc = "main"
    /\ script = "verify_restoration"
    /\ IF argv.original_file.format \in {"list", "deleted", "entities"}
       THEN /\ config' = LoadConfig(cfgfile, environ)
            /\ client' = NewClient(script, LoadConfig(cfgfile, environ).auditboard)
            /\ targets' = argv.original_file.data
            /\ results' = verify_results(argv.type)
            /\ i' = 1
            /\ pc' = "verify_loop"
            /\ UNCHANGED exitCode
       ELSE /\ pc' = "exit"
            /\ exitCode' = 1
            /\ UNCHANGED <<config, client, targets, results, i>>
    /\ UNCHANGED <<inputVars, dry_run, httpVars, loopVars, req, k, fetched, userInput,
                   countdownSlept, files, clientResult>>

\* the loop of verify_restoration: the title of the record, then its getter
VerifyItem ==
    /\ pc = "verify_loop"
    /\ i <= Len(targets)
    /\ IF display_name(targets[i]) = None
       THEN /\ pc' = "exit"
            /\ exitCode' = 1
            /\ UNCHANGED req
       ELSE /\ req' = NewRequest("GET", argv.type, TRUE, dict_get(targets[i], "id")[1])
            /\ pc' = "verify_wait"
            /\ UNCHANGED exitCode
    /\ UNCHANGED <<inputVars, setupVars, httpVars, loopVars, k, targets, fetched, i,
                   results, userInput, countdownSlept, files, clientResult>>

\* the getter came back: NOT_FOUND, or the comparison
VerifyFetched ==
    /\ pc = "verify_wait"
    /\ Finished
    /\ LET r == get_one(req)
           code == UncaughtExit(req, r.raised)
           original == targets[i]
       IN  IF code # Running
           THEN pc' = "exit" /\ exitCode' = code /\ UNCHANGED <<req, results, i>>
           ELSE IF ~ r.found
           THEN /\ results' = not_found(results, dict_get(original, "id"))
                /\ req' = NoRequest
                /\ i' = i + 1
                /\ pc' = "verify_loop"
                /\ UNCHANGED exitCode
           ELSE \E restored \in RestoredRecords :
                   LET cmp == compare_entity(original, restored)
                   IN  IF cmp.raised # "none"
                       THEN /\ pc' = "exit"
                            /\ exitCode' = 1
                            /\ UNCHANGED <<req, results, i>>
                       ELSE /\ results' = compared(results, original, restored, cmp)
                            /\ req' = NoRequest
                            /\ i' = i + 1
                            /\ pc' = "verify_loop"
                            /\ UNCHANGED exitCode
    /\ UNCHANGED <<inputVars, setupVars, httpVars, loopVars, k, targets, fetched,
                   userInput, countdownSlept, files, clientResult>>

\* after the last record verify_restoration returns its results
VerifyReturn ==
    /\ pc = "verify_loop"
    /\ i > Len(targets)
    /\ pc' = "returned"
    /\ UNCHANGED <<inputVars, setupVars, httpVars, loopVars, req, k, targets, fetched,
                   i, results, userInput, countdownSlept, exitCode, files, clientResult>>

\* --------------------------------------------------- verification/check_restoration.py
\* --names: expected names by id, possibly none
ExpectedNames == {<<>>, [id \in {1} |-> "X"], [id \in Ids |-> "X"]}

\* expected_names.get(entity_id, "Unknown") if expected_names else "Unknown"
expected_name(expected_names, entity_id) ==
    IF expected_names # <<>> /\ entity_id \in DOMAIN expected_names
    THEN expected_names[entity_id]
    ELSE "Unknown"

\* (results that carry the time and the mode)
check_results_stamped(entity_type) ==
    [timestamp |-> "now", dry_run |-> TRUE, entity_type |-> entity_type,
     restored |-> <<>>, still_missing |-> <<>>]

\* the results check_restoration starts from
check_results(entity_type) ==
    [entity_type |-> entity_type, restored |-> <<>>, still_missing |-> <<>>]

\* (a loop that files every id under restored)
check_entity_always_restored(res, entity_id, found, entity, expected_names) ==
    [res EXCEPT !.restored =
        Append(@, [id |-> entity_id, name |-> Some("N/A"), entity |-> entity])]

\* one id of the loop: restored with its actual name, or still missing with
\* the expected one
check_entity(res, entity_id, found, entity, expected_names) ==
    IF found
    THEN [res EXCEPT !.restored =
             Append(@, [id |-> entity_id, name |-> display_name(entity),
                        entity |-> entity])]
    ELSE [res EXCEPT !.still_missing =
             Append(@, [id |-> entity_id,
                        expected_name |-> expected_name(expected_names, entity_id)])]

\* main() of check_restoration up to the loop
CheckMain ==
    /\ pc = "main"
    /\ script = "check_restoration"
    /\ config' = LoadConfig(cfgfile, environ)
    /\ client' = NewClient(script, LoadConfig(cfgfile, environ).auditboard)
    /\ results' = check_results(argv.type)
    /\ i' = 1
    /\ pc' = "check_loop"
    /\ UNCHANGED <<inputVars, dry_run, httpVars, loopVars, req, k, targets, fetched,
                   userInput, countdownSlept, exitCode, files, clientResult>>

\* (a loop that deletes what it was asked to look up)
CheckItem_deletes ==
    /\ pc = "check_loop"
    /\ i <= Len(argv.ids)
    /\ req' = NewRequest("DELETE", argv.type, TRUE, argv.ids[i])
    /\ pc' = "check_wait"
    /\ UNCHANGED <<inputVars, setupVars, httpVars, loopVars, k, targets, fetched, i,
                   results, userInput, countdownSlept, exitCode, files, clientResult>>

\* the loop of check_restoration: the getter is called for the next id
CheckItem ==
    /\ pc = "check_loop"
    /\ i <= Len(argv.ids)
    /\ req' = NewRequest("GET", argv.type, TRUE, argv.ids[i])
    /\ pc' = "check_wait"
    /\ UNCHANGED <<inputVars, setupVars, httpVars, loopVars, k, targets, fetched, i,
                   results, userInput, countdownSlept, exitCode, files, clientResult>>

\* the getter came back
CheckFetched ==
    /\ pc = "check_wait"
    /\ Finished
    /\ LET r == get_one(req)
           code == UncaughtExit(req, r.raised)
       IN  IF code # Running
           THEN pc' = "exit" /\ exitCode' = code /\ UNCHANGED <<req, results, i>>
           ELSE \E entity \in (IF r.found THEN RestoredRecords ELSE {None}) :
                   IF r.found /\ display_name(entity) = None
                   THEN /\ pc' = "exit"
                        /\ exitCode' = 1
                        /\ UNCHANGED <<req, results, i>>
                   ELSE /\ results' = check_entity(results, argv.ids[i], r.found, entity,
                                                   argv.names)
                        /\ req' = NoRequest
                        /\ i' = i + 1
                        /\ pc' = "check_loop"
                        /\ UNCHANGED exitCode
    /\ UNCHANGED <<inputVars, setupVars, httpVars, loopVars, k, targets, fetched,
                   userInput, countdownSlept, files, clientResult>>

\* after the last id check_restoration returns its results
CheckReturn ==
    /\ pc = "check_loop"
    /\ i > Len(argv.ids)
    /\ pc' = "returned"
    /\ UNCHANGED <<inputVars, setupVars, httpVars, loopVars, req, k, targets, fetched,
                   i, results, userInput, countdownSlept, exitCode, files, clientResult>>

\* --------------------------------------------------- discovery/search_entities.py
\* a text is the sequence of its characters; str.lower
str_lower(text) ==
    [j \in 1..Len(text) |->
        CASE text[j] = "A" -> "a"
          [] text[j] = "B" -> "b"
          [] OTHER -> text[j]]

\* pattern in text
contains(pattern, text) ==
    \E start \in 0..(Len(text) - Len(pattern)) :
        SubSeq(text, start + 1, start + Len(pattern)) = pattern

\* --pattern values, and the uid and name a record may carry (null included)
Patterns == {<<"a">>, <<"A">>, <<"a", "b">>}

SearchAttrs ==
    [name : {Some(<<"a", "b">>), Some(<<"A", "B">>)}]
    \cup [name : {Some(<<"b">>)}, uid : {None, Some(<<"A">>)}]
    \cup [name : {None}, uid : {Some(<<"a">>)}]
    \cup [uid : {Some(<<"a">>)}]

\* record.get(field, '')
get_text(record, field) == IF field \in DOMAIN record THEN record[field] ELSE Some(<<>>)

\* the uid the test looks at: entity.get('uid', '') or '' for entities
uid_text(type, record) ==
    IF type = "entities" /\ get_text(record, "uid") = None THEN Some(<<>>)
    ELSE get_text(record, "uid")

\* the test of one record: str.lower of a null raises; so does 'in' on a
\* null, which for the name is reached only when the uid does not match
match_raises(type, record, pattern, case_sensitive) ==
    LET uid == uid_text(type, record)
        name == get_text(record, "name")
    IN  IF ~ case_sensitive THEN uid = None \/ name = None
        ELSE \/ uid = None
             \/ ~ contains(pattern, uid[1]) /\ name = None

\* the test with the pattern left as typed when the texts are lowered
matches_pattern_as_typed(type, record, pattern, case_sensitive) ==
    LET uid == uid_text(type, record)[1]
        name == get_text(record, "name")
    IN  IF case_sensitive
        THEN contains(pattern, uid) \/ contains(pattern, name[1])
        ELSE \/ contains(pattern, str_lower(uid))
             \/ contains(pattern, str_lower(name[1]))

matches_pattern(type, record, pattern, case_sensitive) ==
    LET uid == uid_text(type, record)[1]
        name == get_text(record, "name")
    IN  IF case_sensitive
        THEN contains(pattern, uid) \/ contains(pattern, name[1])
        ELSE \/ contains(str_lower(pattern), str_lower(uid))
             \/ contains(str_lower(pattern), str_lower(name[1]))

\* the loop of search_processes / search_entities / search_controls
search_matching(type, records, pattern, case_sensitive) ==
    IF \E j \in 1..Len(records) : match_raises(type, records[j], pattern, case_sensitive)
    THEN [raised |-> "TypeError", matching |-> <<>>]
    ELSE [raised |-> "none",
          matching |-> SelectSeq(records, LAMBDA record :
                          matches_pattern(type, record, pattern, case_sensitive))]

\* {r['id']: r for r in records}.get(record.get(field), {}), the empty dict
\* being <<>>
map_get(records, record, field) ==
    IF field \notin DOMAIN record THEN <<>>
    ELSE IF \A j \in 1..Len(records) : records[j].id # record[field] THEN <<>>
    ELSE records[CHOOSE j \in 1..Len(records) :
                    /\ records[j].id = record[field]
                    /\ \A h \in (j + 1)..Len(records) : records[h].id # record[field]]

\* the entry search_controls makes for a matching control
with_hierarchy(ctrl, all) ==
    LET subprocess == map_get(all["subprocesses"], ctrl, "subprocess_id")
        process == map_get(all["processes"], subprocess, "process_id")
        region == map_get(all["regions"], process, "region_id")
    IN  [control |-> ctrl, subprocess |-> subprocess, process |-> process,
         region |-> region]

\* the collections a search fetches, the searched one first
search_resources(type) ==
    IF type = "controls" THEN <<"controls", "subprocesses", "processes", "regions">>
    ELSE <<type>>

\* search_controls / search_processes / search_entities on what was fetched
search(type, all, pattern, case_sensitive) ==
    LET found == search_matching(type, all[type], pattern, case_sensitive)
    IN  IF type # "controls" \/ found.raised # "none" THEN found
        ELSE [raised |-> "none",
              matching |-> [j \in 1..Len(found.matching) |->
                               with_hierarchy(found.matching[j], all)]]

\* display_*_results slices the name of every match it shows
display_raises(type, matching) ==
    \E j \in 1..Len(matching) :
        LET shown == IF type = "controls" THEN matching[j].control ELSE matching[j]
        IN  "name" \in DOMAIN shown /\ shown.name = None

\* main() of search_entities up to the first fetch
SearchMain ==
    /\ pc = "main"
    /\ script = "search_entities"
    /\ config' = LoadConfig(cfgfile, environ)
    /\ client' = NewClient(script, LoadConfig(cfgfile, environ).auditboard)
    /\ k' = 1
    /\ req' = NewRequest("GET", search_resources(argv.type)[1], FALSE, 0)
    /\ pc' = "search_wait"
    /\ UNCHANGED <<inputVars, dry_run, httpVars, loopVars, targets, fetched, i, results,
                   userInput, countdownSlept, exitCode, files, clientResult>>

\* a collection came back: the next one is fetched, or the loop over the
\* searched records runs and the matches are displayed and returned
SearchFetched ==
    /\ pc = "search_wait"
    /\ Finished
    /\ LET r == get_list(req)
           code == UncaughtExit(req, r.raised)
           resources == search_resources(argv.type)
       IN  IF code # Running
           THEN /\ pc' = "exit"
                /\ exitCode' = code
                /\ UNCHANGED <<req, results, k, fetched>>
           ELSE \E attrs \in [1..Len(r.list) -> (IF k = 1 THEN SearchAttrs ELSE {<<>>})] :
                   LET all == (resources[k] :>
                                  [j \in 1..Len(r.list) |-> attrs[j] @@ r.list[j]])
                              @@ fetched
                       found == search(argv.type, all, argv.pattern, argv.case_sensitive)
                   IN  /\ fetched' = all
                       /\ IF k < Len(resources)
                          THEN /\ k' = k + 1
                               /\ req' = NewRequest("GET", resources[k + 1], FALSE, 0)
                               /\ UNCHANGED <<pc, results, exitCode>>
                          ELSE IF \/ found.raised # "none"
                                  \/ display_raises(argv.type, found.matching)
                          THEN /\ pc' = "exit"
                               /\ exitCode' = 1
                               /\ UNCHANGED <<req, results, k>>
                          ELSE /\ results' = found.matching
                               /\ req' = NoRequest
                               /\ pc' = "returned"
                               /\ UNCHANGED <<k, exitCode>>
    /\ UNCHANGED <<inputVars, setupVars, httpVars, loopVars, targets, i, userInput,
                   countdownSlept, files, clientResult>>

\* --------------------------------------------------- delete_controls.py --pattern
\* main() of delete_controls with --pattern, up to client.get_controls() in
\* get_controls_by_pattern
PatternMain ==
    /\ pc = "main"
    /\ script = "delete_controls"
    /\ "pattern" \in DOMAIN argv
    /\ config' = LoadConfig(cfgfile, environ)
    /\ client' = NewClient(script, LoadConfig(cfgfile, environ).auditboard)
    /\ dry_run' = DryRunMode(argv, environ)
    /\ \E inp \in ProductionInputs :
          IF dry_run' \/ confirm_production(dry_run', cfgfile.sandbox, inp)
          THEN /\ pc' = "pattern_wait"
               /\ req' = NewRequest("GET", "controls", FALSE, 0)
               /\ UNCHANGED exitCode
          ELSE /\ pc' = "exit"
               /\ exitCode' = 1
               /\ UNCHANGED req
    /\ UNCHANGED <<inputVars, httpVars, loopVars, k, targets, fetched, i, results,
                   userInput, countdownSlept, files, clientResult>>

\* get_controls_by_pattern on the fetched controls: its test is the test of
\* search_controls; the matches are what delete_controls_bulk is given
PatternFetched ==
    /\ pc = "pattern_wait"
    /\ Finished
    /\ LET r == get_list(req)
           code == UncaughtExit(req, r.raised)
       IN  IF code # Running
           THEN /\ pc' = "exit"
                /\ exitCode' = code
                /\ UNCHANGED <<req, targets, fetched>>
           ELSE \E attrs \in [1..Len(r.list) -> SearchAttrs] :
                   LET all_controls == [j \in 1..Len(r.list) |-> attrs[j] @@ r.list[j]]
                       found == search_matching("controls", all_controls, argv.pattern,
                                                argv.case_sensitive)
                   IN  IF found.raised # "none"
                       THEN /\ pc' = "exit"
                            /\ exitCode' = 1
                            /\ UNCHANGED <<req, targets, fetched>>
                       ELSE /\ targets' = found.matching
                            /\ fetched' = ("controls" :> all_controls)
                            /\ req' = NoRequest
                            /\ pc' = "resolve"
                            /\ UNCHANGED exitCode
    /\ UNCHANGED <<inputVars, setupVars, httpVars, loopVars, k, i, results, userInput,
                   countdownSlept, files, clientResult>>

\* --------------------------------------------------- analyze_region and the
\* region dependency checkers on one state of the server
\* what the server holds: the collections the two commands read of it
Servers ==
    [entities : RemoteCollections("entities"),
     processes_data : RemoteCollections("processes_data"),
     processes : RemoteCollections("processes"),
     subprocesses_data : {<<>>}, subprocesses : {<<>>}, controls : {<<>>},
     controls_data : {<<>>}]

\* analyze_region from step n on, for a region the server has: each step
\* reads its collection of the server, or is skipped; then the summary
RECURSIVE analyze_from(_, _, _)
analyze_from(n, state, server) ==
    IF n \notin Steps THEN analyze_summary(state)
    ELSE analyze_from(n + 1,
                      IF step_fetches(n, state)
                      THEN step_update(n, state, server[step_resource(n)])
                      ELSE state,
                      server)

\* analyze_region --region-id runs against the server
AnalyzeServer ==
    /\ pc = "main"
    /\ results' = analyze_from(2, [analyze_state(argv.region_id)
                                      EXCEPT !.region = [id |-> argv.region_id]],
                               fetched)
    /\ pc' = "analyzed"
    /\ UNCHANGED <<inputVars, setupVars, httpVars, loopVars, req, k, targets, fetched,
                   i, userInput, countdownSlept, exitCode, files, clientResult>>

\* the dependency check of the same region runs against the same server:
\* check_region_dependencies of find_dependencies, or of delete_region
CheckServer ==
    /\ pc = "analyzed"
    /\ clientResult' =
          IF script = "find_dependencies"
          THEN fd_check_region_dependencies(argv.region_id, fetched.entities,
                                            fetched.processes)
          ELSE LET c == check_region_dependencies(argv.region_id, fetched.entities,
                                                  fetched.processes)
               IN  [has_dependencies |-> ~ c.safe,
                    entities |-> c.dependencies.entities,
                    processes |-> c.dependencies.processes]
    /\ pc' = "compared"
    /\ UNCHANGED <<inputVars, setupVars, httpVars, loopVars, req, k, targets, fetched,
                   i, results, userInput, countdownSlept, exitCode, files>>

Next ==
    \/ Main
    \/ StartLookup
    \/ HttpAttempt
    \/ BackoffInterrupted
    \/ LookupDone
    \/ EnterBulk
    \/ Confirm
    \/ Countdown
    \/ CountdownInterrupted
    \/ LoopItem
    \/ DeleteDone
    \/ Pace
    \/ PaceInterrupted
    \/ LoopEnd
    \/ RegionLookupDone
    \/ DepsEntitiesDone
    \/ DepsProcessesDone
    \/ RegionDelete
    \/ RegionDeleteDone
    \/ Save
    \/ ClientCall
    \/ ClientReturn

Spec == Init /\ [][Next]_vars

\* what every read-only command starts from, the command line aside
ReadOnlyStart(config_files) ==
    /\ environ = [DRY_RUN |-> "unset"]
    /\ cfgfile \in config_files
    /\ config = LoadConfig(NoFile, [DRY_RUN |-> "unset"])
    /\ client = [max_retries |-> DefaultMaxRetries, retry_delay |-> DefaultRetryDelay]
    /\ dry_run = TRUE
    /\ pc = "main"
    /\ req = NoRequest
    /\ http = {}
    /\ httpDeleteIds = {}
    /\ httpGets = {}
    /\ k = 1
    /\ targets = <<>>
    /\ fetched = NothingFetched
    /\ i = 1
    /\ results = <<>>
    /\ deleteCalls = <<>>
    /\ outcomes = <<>>
    /\ userInput = NoInput
    /\ countdownSlept = FALSE
    /\ paceSleeps = <<>>
    /\ exitCode = Running
    /\ files = <<>>
    /\ clientResult = NoResult

\* ------------------------------------------- find_dependencies.py, every --type
DepsInit ==
    /\ script = "find_dependencies"
    /\ argv \in [live : {FALSE}, dry_run_flag : {FALSE}, force : {FALSE},
                 ids : IdLists \cup {<<>>}, region_id : RegionIds,
                 type : {"entities", "processes", "subprocesses", "region"}]
    /\ (argv.type = "region") = (argv.ids = <<>>)
    /\ argv.type # "region" => argv.region_id = 1
    /\ ReadOnlyStart({f \in ConfigFiles : f.sandbox})

DepsNext ==
    \/ Main
    \/ HttpAttempt
    \/ BackoffInterrupted
    \/ DepsEntitiesDone
    \/ DepsProcessesDone
    \/ DepsChildrenDone
    \/ Save

DepsSpec == DepsInit /\ [][DepsNext]_vars

\* ------------------------------------------- analyze_region.py
AnalyzeInit ==
    /\ script = "analyze_region"
    /\ argv \in [region_id : RegionIds]
    /\ ReadOnlyStart({f \in ConfigFiles : f.sandbox})

AnalyzeNext ==
    \/ Main
    \/ HttpAttempt
    \/ BackoffInterrupted
    \/ AnalyzeRegionDone
    \/ AnalyzeStep
    \/ AnalyzeFetched
    \/ AnalyzeSummary
    \/ Save

AnalyzeSpec == AnalyzeInit /\ [][AnalyzeNext]_vars

\* ------------------------------------------- verify_restoration.py
VerifyInit ==
    /\ script = "verify_restoration"
    /\ argv \in [type : {"controls"}, original_file : OriginalFiles]
    /\ ReadOnlyStart({f \in ConfigFiles : f.sandbox /\ f.max_retries = 1})

VerifyNext ==
    \/ VerifyMain
    \/ HttpAttempt
    \/ BackoffInterrupted
    \/ VerifyItem
    \/ VerifyFetched
    \/ VerifyReturn
    \/ Save

VerifySpec == VerifyInit /\ [][VerifyNext]_vars

\* ------------------------------------------- check_restoration.py
CheckInit ==
    /\ script = "check_restoration"
    /\ argv \in [type : {"controls"}, ids : IdLists, names : ExpectedNames]
    /\ ReadOnlyStart({f \in ConfigFiles : f.sandbox})

CheckNext ==
    \/ CheckMain
    \/ HttpAttempt
    \/ BackoffInterrupted
    \/ CheckItem
    \/ CheckFetched
    \/ CheckReturn
    \/ Save

CheckSpec == CheckInit /\ [][CheckNext]_vars

\* ------------------------------------------- search_entities.py
SearchInit ==
    /\ script = "search_entities"
    /\ argv \in [type : {"controls", "processes", "entities"}, pattern : Patterns,
                 case_sensitive : BOOLEAN]
    /\ ReadOnlyStart({f \in ConfigFiles : f.sandbox /\ f.max_retries = 1})

SearchNext ==
    \/ SearchMain
    \/ HttpAttempt
    \/ BackoffInterrupted
    \/ SearchFetched
    \/ Save

SearchSpec == SearchInit /\ [][SearchNext]_vars

\* ------------------------------------------- delete_controls.py --pattern, and
\* search_entities.py: every command that selects records by pattern
PatternInit ==
    /\ script = "delete_controls"
    /\ argv \in [live : BOOLEAN, dry_run_flag : {FALSE}, force : {FALSE},
                 ids : {<<>>}, region_id : {1}, type : {"none"},
                 pattern : Patterns, case_sensitive : BOOLEAN]
    /\ ReadOnlyStart({f \in ConfigFiles : /\ f.max_retries \in 0..MaxCfgRetries
                                          /\ f.sandbox \/ argv.live})

SelectInit ==
    \/ SearchInit
    \/ PatternInit

SelectNext ==
    \/ SearchMain
    \/ SearchFetched
    \/ PatternMain
    \/ PatternFetched
    \/ HttpAttempt
    \/ BackoffInterrupted
    \/ EnterBulk
    \/ Confirm
    \/ Countdown
    \/ CountdownInterrupted
    \/ LoopItem
    \/ DeleteDone
    \/ Pace
    \/ PaceInterrupted
    \/ LoopEnd
    \/ Save

SelectSpec == SelectInit /\ [][SelectNext]_vars

\* ------------------------------------------- analyze_region.py and a region
\* dependency check, one after the other on an unchanged server
ServerInit ==
    /\ script \in {"find_dependencies", "delete_region"}
    /\ argv \in [region_id : RegionIds]
    /\ environ = [DRY_RUN |-> "unset"]
    /\ cfgfile = NoFile
    /\ config = LoadConfig(NoFile, [DRY_RUN |-> "unset"])
    /\ client = [max_retries |-> DefaultMaxRetries, retry_delay |-> DefaultRetryDelay]
    /\ dry_run = TRUE
    /\ pc = "main"
    /\ req = NoRequest
    /\ http = {}
    /\ httpDeleteIds = {}
    /\ httpGets = {}
    /\ k = 1
    /\ targets = <<>>
    /\ fetched \in Servers
    /\ i = 1
    /\ results = <<>>
    /\ deleteCalls = <<>>
    /\ outcomes = <<>>
    /\ userInput = NoInput
    /\ countdownSlept = FALSE
    /\ paceSleeps = <<>>
    /\ exitCode = Running
    /\ files = <<>>
    /\ clientResult = NoResult

ServerNext ==
    \/ AnalyzeServer
    \/ CheckServer

ServerSpec == ServerInit /\ [][ServerNext]_vars

\* ------------------------------------------- the deletion commands left to
\* run: the server answers or fails every attempt as it likes, nobody presses
\* Ctrl+C during a sleep.  The program is one thread: whatever statement is
\* next is executed, every attempt ends (response, error or timeout) and every
\* sleep ends.
LiveNext ==
    \/ Main
    \/ StartLookup
    \/ HttpAttempt
    \/ LookupDone
    \/ EnterBulk
    \/ Confirm
    \/ Countdown
    \/ LoopItem
    \/ DeleteDone
    \/ Pace
    \/ LoopEnd
    \/ RegionLookupDone
    \/ DepsEntitiesDone
    \/ DepsProcessesDone
    \/ RegionDelete
    \/ RegionDeleteDone
    \/ Save
    \/ ClientCall
    \/ ClientReturn

LiveSpec == Init /\ [][LiveNext]_vars /\ WF_vars(LiveNext)

\* ------------------------------------------- every command
AllInit ==
    \/ Init
    \/ DepsInit
    \/ AnalyzeInit
    \/ VerifyInit
    \/ CheckInit
    \/ SearchInit

AllNext ==
    \/ Main
    \/ StartLookup
    \/ HttpAttempt
    \/ BackoffInterrupted
    \/ LookupDone
    \/ EnterBulk
    \/ Confirm
    \/ Countdown
    \/ CountdownInterrupted
    \/ LoopItem
    \/ DeleteDone
    \/ Pace
    \/ PaceInterrupted
    \/ LoopEnd
    \/ RegionLookupDone
    \/ DepsEntitiesDone
    \/ DepsProcessesDone
    \/ RegionDelete
    \/ RegionDeleteDone
    \/ Save
    \/ ClientCall
    \/ ClientReturn
    \/ DepsChildrenDone
    \/ AnalyzeRegionDone
    \/ AnalyzeStep
    \/ AnalyzeFetched
    \/ AnalyzeSummary
    \/ VerifyMain
    \/ VerifyItem
    \/ VerifyFetched
    \/ VerifyReturn
    \/ CheckMain
    \/ CheckItem
    \/ CheckFetched
    \/ CheckReturn
    \/ SearchMain
    \/ SearchFetched

AllSpec == AllInit /\ [][AllNext]_vars

TypeOK ==
    /\ pc \in {"main", "resolve", "resolve_wait", "confirm", "countdown", "loop",
               "delete_wait", "pace", "returned", "deps_entities", "deps_processes",
               "region_delete", "region_wait", "client_call", "client_wait", "exit",
               "deps_children", "an_region", "an_step", "an_wait",
               "verify_loop", "verify_wait", "check_loop", "check_wait",
               "search_wait"}
    /\ exitCode \in {Running, 0, 1, ExitInterrupted}
    /\ (pc = "exit") = (exitCode # Running)

\* --------------------------------------------------- properties
IdsOf(entries) == [j \in 1..Len(entries) |-> entries[j].id]

Count(seq, x) == Cardinality({j \in 1..Len(seq) : seq[j] = x})

\* the mode the command line asks for
DryRunRequested == ~ argv.live

\* the collections the dependency check fetched hold a record of the region
Matching(collection) ==
    {j \in 1..Len(collection) : collection[j].region_id = argv.region_id}

HasMatch == Matching(fetched.entities) # {} \/ Matching(fetched.processes) # {}

\* the phrase each driver asks for, written out
ExpectedPhrase ==
    CASE script = "delete_controls" -> <<"DELETE", NumStr(Total), "CONTROLS">>
      [] script = "delete_entities" -> <<"DELETE", NumStr(Total), "ENTITIES">>
      [] script = "delete_processes" -> <<"DELETE", NumStr(Total), "PROCESSES">>
      [] script = "delete_subprocesses" -> <<"DELETE", NumStr(Total), "SUBPROCESSES">>
      [] OTHER -> <<"DELETE", "REGION", NumStr(argv.region_id)>>

\* C1 (as stated): in dry-run mode no deletion driver sends an HTTP DELETE,
\* and when the driver returns every resolved target is in 'deleted' and
\* 'failed' is empty; for delete_region, a resolved region gives success = true.
C1_DryRunAsStated ==
    (script \in DeletionScripts /\ pc # "main" /\ dry_run) =>
        /\ "DELETE" \notin http
        /\ deleteCalls = <<>>
        /\ (pc = "returned" /\ script \in BulkScripts) =>
              /\ IdsOf(results.deleted) = IdsOf(targets)
              /\ results.failed = <<>>
        /\ (pc = "returned" /\ script = "delete_region" /\ targets # <<>>) =>
              results.success

\* C1 (amended): in dry-run mode no deletion driver sends an HTTP DELETE, and
\* when the driver returns every resolved target is in 'deleted' and 'failed'
\* is empty; for delete_region, a resolved region gives success = true unless
\* the dependency check (run when --force is absent) found an entity or a
\* process of the region, and then success = false.
C1_DryRun ==
    (script \in DeletionScripts /\ pc # "main" /\ dry_run) =>
        /\ "DELETE" \notin http
        /\ deleteCalls = <<>>
        /\ (pc = "returned" /\ script \in BulkScripts) =>
              /\ IdsOf(results.deleted) = IdsOf(targets)
              /\ results.failed = <<>>
        /\ (pc = "returned" /\ script = "delete_region" /\ targets # <<>>) =>
              (results.success = ~ (~ argv.force /\ HasMatch))

C1_Witness ==
    /\ script = "delete_controls"
    /\ dry_run
    /\ pc = "returned"
    /\ Len(targets) = 2
    /\ IdsOf(results.deleted) = IdsOf(targets)

\* C2: in live mode with a non-empty target list a driver sends its first
\* HTTP DELETE only after the operator typed exactly the driver's phrase; after
\* any other input the process has exited with code 0, has sent no DELETE and
\* has written no result file.
C2_ConfirmationGate ==
    (script \in DeletionScripts /\ argv.live) =>
        /\ ("DELETE" \in http \/ deleteCalls # <<>>) =>
              userInput = Line(ExpectedPhrase)
        /\ (userInput.kind # "none" /\ userInput # Line(ExpectedPhrase)) =>
              /\ pc = "exit"
              /\ exitCode = 0
              /\ "DELETE" \notin http
              /\ files = <<>>

C2_Witness ==
    /\ script = "delete_entities"
    /\ argv.live
    /\ "DELETE" \in http
    /\ userInput = Line(<<"DELETE", "2", "ENTITIES">>)

\* C3: when the dependency check fetched an entity or a process whose
\* region_id is the target region, the report of find_dependencies has
\* has_dependencies = true and the matching counts, and delete_region without
\* --force sends no HTTP DELETE in either mode, returns success = false with
\* the blocking records, and the process exits non-zero.
C3_RegionDependencies ==
    /\ (script = "find_dependencies" /\ pc = "returned") =>
          /\ results.has_dependencies = HasMatch
          /\ results.entities_count = Cardinality(Matching(fetched.entities))
          /\ results.processes_count = Cardinality(Matching(fetched.processes))
    /\ (script = "delete_region" /\ ~ argv.force /\ HasMatch) =>
          /\ "DELETE" \notin http
          /\ deleteCalls = <<>>
          /\ pc \in {"deps_processes", "returned", "exit"}
          /\ pc = "returned" =>
                /\ ~ results.success
                /\ Len(results.dependencies.entities)
                      = Cardinality(Matching(fetched.entities))
                /\ Len(results.dependencies.processes)
                      = Cardinality(Matching(fetched.processes))
                /\ \A j \in 1..Len(results.dependencies.entities) :
                      results.dependencies.entities[j].region_id = argv.region_id
                /\ \A j \in 1..Len(results.dependencies.processes) :
                      results.dependencies.processes[j].region_id = argv.region_id
          /\ pc = "exit" => exitCode # 0

C3_Witness ==
    /\ script = "delete_region"
    /\ ~ argv.force
    /\ pc = "exit"
    /\ exitCode = 1
    /\ Len(files) = 1
    /\ Cardinality(Matching(fetched.entities)) = 2
    /\ Len(files[1].dependencies.entities) = 2

C5_State ==
    /\ req.sleeps = [j \in 1..req.retry_count |-> client.retry_delay * j]
    /\ req.state = "pending" => req.attempts = req.retry_count
    /\ req.state = "raised" =>
          /\ req.attempts = client.max_retries + 1
          /\ req.retry_count = client.max_retries
          /\ req.response.kind = "exception"
    /\ req.state = "returned" =>
          /\ req.attempts = req.retry_count + 1
          /\ req.response.kind = "response"
          /\ req.response.status_code < 500 \/ req.retry_count = client.max_retries

C5_NoFurtherAttempt ==
    req.state \in {"returned", "raised"} =>
        \/ req' = req
        \/ req'.attempts = 0

C6_Partition ==
    (script \in BulkScripts /\ pc = "returned") =>
        /\ results[total_key(script)] = Len(targets)
        /\ Len(results.deleted) + Len(results.failed) = results[total_key(script)]
        /\ \A x \in Ids :
              Count(IdsOf(results.deleted), x) + Count(IdsOf(results.failed), x)
                 = Count(IdsOf(targets), x)
        /\ ~ dry_run =>
              /\ Len(outcomes) = Len(targets)
              /\ IdsOf(results.deleted) =
                    IdsOf(SelectSeq([j \in 1..Len(targets) |->
                                        [id |-> targets[j].id, status |-> outcomes[j]]],
                                    LAMBDA e : e.status \in {200, 204}))
              /\ IdsOf(results.failed) =
                    IdsOf(SelectSeq([j \in 1..Len(targets) |->
                                        [id |-> targets[j].id, status |-> outcomes[j]]],
                                    LAMBDA e : e.status \notin {200, 204}))

C6_Witness ==
    /\ script = "delete_processes"
    /\ pc = "returned"
    /\ ~ dry_run
    /\ outcomes = <<202, 204>>
    /\ Len(results.deleted) = 1
    /\ Len(results.failed) = 1

\* what the delete loop has to record for a failed item: the id, and the text
\* of the exception when client.delete_* raised
Raising(status) == status = 0 \/ (status >= 400 /\ status < 600)

ErrorText(status) ==
    IF status = 0 THEN "ConnectionError"
    ELSE IF status >= 500 THEN "Server Error"
    ELSE "Client Error"

FailedPositions == {j \in 1..Len(outcomes) : outcomes[j] \notin {200, 204}}

\* the position of the m-th failed item
FailedAt(m) ==
    CHOOSE j \in FailedPositions :
        Cardinality({h \in FailedPositions : h <= j}) = m

\* C7 (as stated): in a confirmed live run the delete loop makes exactly one
\* delete call per target, in target order, for all targets whatever the
\* per-item outcomes (success, non-2xx status, transport exception), and every
\* item that failed so is in 'failed' with its error text.
C7_LoopAsStated ==
    (script \in BulkScripts /\ ~ dry_run /\ pc \in {"loop", "delete_wait", "pace", "returned"}) =>
        /\ Len(deleteCalls) <= Len(targets)
        /\ \A j \in 1..Len(deleteCalls) : deleteCalls[j] = targets[j].id
        /\ pc = "returned" =>
              /\ deleteCalls = IdsOf(targets)
              /\ Len(results.failed) = Cardinality(FailedPositions)
              /\ \A m \in 1..Len(results.failed) :
                    /\ results.failed[m].id = targets[FailedAt(m)].id
                    /\ outcomes[FailedAt(m)] \notin 200..299 =>
                          "error" \in DOMAIN results.failed[m]

\* C7 (amended): in a confirmed live run the delete loop makes exactly one
\* delete call per target, in target order, for all targets whatever the
\* per-item outcomes; every failed item is in 'failed', with its error text
\* when the delete call raised (4xx, 5xx, or a transport exception after the
\* retries) and without an error text when the call returned false (any other
\* status that is not 200 or 204).
C7_Loop ==
    (script \in BulkScripts /\ ~ dry_run /\ pc \in {"loop", "delete_wait", "pace", "returned"}) =>
        /\ Len(deleteCalls) <= Len(targets)
        /\ \A j \in 1..Len(deleteCalls) : deleteCalls[j] = targets[j].id
        /\ pc = "loop" => Len(deleteCalls) = i - 1 /\ Len(outcomes) = i - 1
        /\ pc = "returned" =>
              /\ deleteCalls = IdsOf(targets)
              /\ Len(results.failed) = Cardinality(FailedPositions)
              /\ \A m \in 1..Len(results.failed) :
                    /\ results.failed[m].id = targets[FailedAt(m)].id
                    /\ ("error" \in DOMAIN results.failed[m]) = Raising(outcomes[FailedAt(m)])
                    /\ Raising(outcomes[FailedAt(m)]) =>
                          results.failed[m].error = ErrorText(outcomes[FailedAt(m)])

C7_Witness ==
    /\ script = "delete_subprocesses"
    /\ ~ dry_run
    /\ pc = "returned"
    /\ outcomes = <<404, 200>>
    /\ deleteCalls = <<1, 2>>
    /\ Len(results.failed) = 1
    /\ results.failed[1].error = "Client Error"

\* C8: a deletion entry point is live only when --live is on the command
\* line, whatever DRY_RUN or the config file say, and every result object a
\* driver returns or saves carries dry_run equal to the mode used.
C8_DryRunDefault ==
    (script \in DeletionScripts /\ pc # "main") =>
        /\ dry_run = DryRunRequested
        /\ DryRunRequested => ("DELETE" \notin http /\ userInput.kind = "none")
        /\ results # <<>> => results.dry_run = DryRunRequested
        /\ \A f \in 1..Len(files) : files[f].dry_run = DryRunRequested

C8_Witness ==
    /\ script = "delete_region"
    /\ environ.DRY_RUN = "false"
    /\ ~ argv.live
    /\ pc = "exit"
    /\ Len(files) = 1
    /\ files[1].dry_run
    /\ ~ files[1].success

\* the ids a saved report accounts for
ReportedIds(report) ==
    IF "deleted" \in DOMAIN report
    THEN {report.deleted[j].id : j \in 1..Len(report.deleted)}
         \cup {report.failed[j].id : j \in 1..Len(report.failed)}
    ELSE IF "region_id" \in DOMAIN report THEN {report.region_id}
    ELSE {}

\* C9: a run of a deletion entry point that sent at least one HTTP DELETE
\* ends with exactly one saved report, which accounts for every id a DELETE
\* was sent for.
C9_ReportPersisted ==
    (script \in DeletionScripts /\ pc = "exit" /\ httpDeleteIds # {}) =>
        /\ Len(files) = 1
        /\ httpDeleteIds \subseteq ReportedIds(files[1])

\* C10: a 4xx response is never retried: the attempt that met it is the last
\* one, a request whose first response is 4xx makes exactly one attempt and
\* no backoff sleep, and get, post and delete raise an HTTP error to their
\* caller.
Is4xx(response) ==
    response.kind = "response" /\ response.status_code >= 400 /\ response.status_code < 500

C10_No4xxRetry ==
    /\ (req.attempts > 0 /\ Is4xx(req.response)) =>
          /\ req.state = "returned"
          /\ req.attempts = req.retry_count + 1
          /\ req.retry_count = 0 => (req.attempts = 1 /\ req.sleeps = <<>>)
    /\ (script = "client" /\ pc = "exit" /\ Is4xx(req.response)
            /\ clientResult.call \in {"get", "post", "delete"}) =>
          clientResult.raised = "HTTPError"

C10_Witness ==
    /\ script = "client"
    /\ pc = "exit"
    /\ req.method = "POST"
    /\ req.response.status_code = 404
    /\ req.attempts = 1
    /\ req.sleeps = <<>>
    /\ clientResult.raised = "HTTPError"

\* C11 (as stated): AuditBoardClient.delete returns true exactly when the
\* final response status is 200 or 204 and raises for every other final
\* status: it never returns false.
C11_DeleteAsStated ==
    (script = "client" /\ pc = "exit" /\ clientResult.call = "delete") =>
        IF req.state = "returned" /\ req.response.status_code \in {200, 204}
        THEN clientResult.raised = "none" /\ clientResult.value
        ELSE clientResult.raised # "none"

\* C11 (amended): AuditBoardClient.delete returns true exactly when the final
\* response status is 200 or 204; it raises an HTTP error for a final status
\* of 400..599 and re-raises the transport exception when the retries are
\* exhausted; for any other final status (202, 304, ...) it returns false.
C11_Delete ==
    (script = "client" /\ pc = "exit" /\ clientResult.call = "delete") =>
        IF req.state = "raised"
        THEN clientResult.raised = "RequestException"
        ELSE IF req.response.status_code \in {200, 204}
        THEN clientResult.raised = "none" /\ clientResult.value
        ELSE IF req.response.status_code \in 400..599
        THEN clientResult.raised = "HTTPError"
        ELSE clientResult.raised = "none" /\ ~ clientResult.value

C11_Witness ==
    /\ script = "client"
    /\ pc = "exit"
    /\ clientResult.call = "delete"
    /\ req.attempts = 2
    /\ req.response.status_code = 304
    /\ clientResult.raised = "none"
    /\ ~ clientResult.value

\* C12 (as stated): a per-id accessor never raises: when the GET ends in a
\* 4xx, in a 5xx after the retries or in a network-level failure after the
\* retries it returns the absent-value sentinel, and otherwise the first
\* element of the array, or the sentinel when the array is empty.
C12_AccessorAsStated ==
    (script = "client" /\ pc = "exit" /\ clientResult.call = "get_control") =>
        /\ clientResult.raised = "none"
        /\ clientResult.found =
              (req.state = "returned" /\ req.response.status_code = 200
                 /\ req.response.body = "record")

\* C12 (amended): a per-id accessor never raises an HTTP error: when the GET
\* ends in a 4xx, or in a 5xx after the retries, it returns the absent-value
\* sentinel; on a 200 it returns the first element of the array, or the
\* sentinel when the array is empty; a network-level failure after the
\* retries is not caught and reaches the caller as the exception.
C12_Accessor ==
    (script = "client" /\ pc = "exit" /\ clientResult.call = "get_control") =>
        IF req.state = "raised"
        THEN clientResult.raised = "RequestException"
        ELSE /\ clientResult.raised = "none"
             /\ clientResult.found =
                   (req.response.status_code = 200 /\ req.response.body = "record")

C12_Witness ==
    /\ script = "client"
    /\ pc = "exit"
    /\ clientResult.call = "get_control"
    /\ req.state = "returned"
    /\ req.response.status_code = 500
    /\ req.attempts = client.max_retries + 1
    /\ clientResult.raised = "none"
    /\ ~ clientResult.found

\* C13: in live mode an EOF or a keyboard interrupt at the confirmation
\* prompt of confirm_deletion, and a keyboard interrupt during the countdown
\* sleep, are cancellations: the process exits with code 0, no HTTP DELETE was
\* sent and none is sent afterwards; the countdown sleep runs only in live
\* mode and only after the phrase was typed.
C13_State ==
    script \in DeletionScripts =>
        /\ userInput.kind \in {"eof", "interrupt"} =>
              /\ pc = "exit"
              /\ exitCode = 0
              /\ "DELETE" \notin http
              /\ deleteCalls = <<>>
        /\ (pc = "countdown" \/ countdownSlept) =>
              /\ argv.live
              /\ ~ dry_run
              /\ userInput = Line(ExpectedPhrase)
        /\ pc = "countdown" => "DELETE" \notin http /\ deleteCalls = <<>>

C13_Step ==
    /\ (pc = "countdown" /\ pc' = "exit") =>
          /\ exitCode' = 0
          /\ "DELETE" \notin http'
          /\ deleteCalls' = <<>>
    /\ pc = "exit" => (http' = http /\ deleteCalls' = deleteCalls)

C13_Cancellation == [] C13_State /\ [][C13_Step]_vars

C13_Witness ==
    /\ script = "delete_region"
    /\ argv.live
    /\ userInput = Line(<<"DELETE", "REGION", "2">>)
    /\ ~ countdownSlept
    /\ pc = "exit"
    /\ exitCode = 0
    /\ "DELETE" \notin http

\* C14: a keyboard interrupt during any sleep (countdown, rate-limit pacing,
\* retry backoff) or during a prompt is caught and the process exits cleanly:
\* no run ends in the exit status of an uncaught KeyboardInterrupt.
C14_InterruptsCaught ==
    pc = "exit" => exitCode # ExitInterrupted

\* the child records a checker of find_dependencies has to report: those
\* whose foreign key is one of the ids on the command line
ChildKey(rec) ==
    CASE argv.type = "entities" -> rec.entity_id
      [] argv.type = "processes" -> rec.process_id
      [] OTHER -> rec.subprocess_id

ChildMatches ==
    {j \in 1..Len(fetched.children) :
        \E n \in 1..Len(argv.ids) : argv.ids[n] = ChildKey(fetched.children[j])}

ReportedChildren(report) ==
    CASE argv.type = "entities" -> report.processes_data
      [] argv.type = "processes" -> report.subprocesses
      [] OTHER -> report.controls

ReportedCount(report) ==
    CASE argv.type = "entities" -> report.processes_data_count
      [] argv.type = "processes" -> report.subprocesses_count
      [] OTHER -> report.controls_count

IdSet(records) == {records[j].id : j \in 1..Len(records)}

\* C16: every dependency checker of find_dependencies (entity, process,
\* subprocess, region), on every remote data set: has_dependencies is false
\* exactly when no child record has its foreign key among the given ids; the
\* reported count is the number of matching child records, and the returned
\* list holds every one of them and nothing else.
C16_DependencyCheckers ==
    (script = "find_dependencies" /\ pc = "returned") =>
        IF argv.type = "region"
        THEN /\ results.has_dependencies = HasMatch
             /\ results.entities_count = Cardinality(Matching(fetched.entities))
             /\ results.processes_count = Cardinality(Matching(fetched.processes))
             /\ Len(results.entities) = results.entities_count
             /\ Len(results.processes) = results.processes_count
             /\ IdSet(results.entities)
                   = {fetched.entities[j].id : j \in Matching(fetched.entities)}
             /\ IdSet(results.processes)
                   = {fetched.processes[j].id : j \in Matching(fetched.processes)}
        ELSE /\ results.has_dependencies = (ChildMatches # {})
             /\ ReportedCount(results) = Cardinality(ChildMatches)
             /\ Len(ReportedChildren(results)) = Cardinality(ChildMatches)
             /\ IdSet(ReportedChildren(results))
                   = {fetched.children[j].id : j \in ChildMatches}
             /\ \A j \in 1..Len(ReportedChildren(results)) :
                   ReportedChildren(results)[j]
                      = fetched.children[ReportedChildren(results)[j].id]

C16_Witness ==
    /\ script = "find_dependencies"
    /\ argv.type = "subprocesses"
    /\ argv.ids = <<1, 2>>
    /\ pc = "exit"
    /\ exitCode = 1
    /\ Len(fetched.children) = 2
    /\ fetched.children[1].subprocess_id = 2
    /\ files[1].controls_count = 2
    /\ files[1].has_dependencies

\* the seven collections of an analyze_region report
ReportLevels == {step_resource(n) : n \in Steps}

RegionMissing ==
    /\ script = "analyze_region"
    /\ pc = "returned"
    /\ results.region = None

\* C17 as stated: without a region the report has empty collections, carries
\* an error flag, and no collection was fetched.
C17_MissingRegionAsStated ==
    RegionMissing =>
        /\ \A level \in ReportLevels : results[level] = <<>>
        /\ "error" \in DOMAIN results
        /\ httpGets \subseteq {"regions"}

\* C17: when the region lookup yields no region, analyze_region returns the
\* state it started from: every entity, process, subprocess, control and
\* junction collection is empty, region is null, the summary is empty, there
\* is no error key, and no collection was fetched.
C17_MissingRegion ==
    RegionMissing =>
        /\ \A level \in ReportLevels : results[level] = <<>>
        /\ results = analyze_state(argv.region_id)
        /\ "error" \notin DOMAIN results
        /\ httpGets = {"regions"}

C17_Witness ==
    /\ script = "analyze_region"
    /\ pc = "exit"
    /\ exitCode = 0
    /\ Len(files) = 1
    /\ files[1].region = None
    /\ files[1].entities = <<>>
    /\ httpGets = {"regions"}

\* the steps of analyze_region that resolve ids for the steps after them, and
\* whether step n resolved none
ResolvingSteps == {2, 3, 5, 7}

ResolvedNone(n) ==
    CASE n = 2 -> entity_ids(results) = <<>>
      [] n = 3 -> processes_data_ids(results) = <<>> \/ process_ids(results) = <<>>
      [] n = 5 -> results.subprocesses_data = <<>> \/ subprocess_ids(results) = <<>>
      [] OTHER -> control_ids(results) = <<>>

StepOver(n) ==
    \/ pc = "returned"
    \/ pc \in {"an_step", "an_wait"} /\ k > n

\* C18: in analyze_region, once a level resolved no ids (entities,
\* processes_data / process ids, subprocesses_data / subprocess ids,
\* controls), no HTTP call is made for any collection after it and every
\* level after it stays empty in the report.
C18_ShortCircuit ==
    script = "analyze_region" =>
        \A n \in ResolvingSteps :
            (StepOver(n) /\ ResolvedNone(n)) =>
                \A m \in (n + 1)..8 :
                    /\ step_resource(m) \notin httpGets
                    /\ results[step_resource(m)] = <<>>

C18_Witness ==
    /\ script = "analyze_region"
    /\ pc = "exit"
    /\ exitCode = 0
    /\ Len(files) = 1
    /\ files[1].entities # <<>>
    /\ files[1].processes_data # <<>>
    /\ files[1].subprocesses_data = <<>>
    /\ httpGets = {"regions", "entities", "processes_data", "processes",
                   "subprocesses_data"}

\* the identity fields, and the entries of the verification a comparison made
IdentityFields == {"id", "name"} \cup {key_fields[j] : j \in 1..Len(key_fields)}

Verifying ==
    /\ script = "verify_restoration"
    /\ pc \in {"verify_loop", "verify_wait", "returned"}

ComparedEntries ==
    {j \in 1..Len(results.entities) : results.entities[j].status # "NOT_FOUND"}

\* the fields two records disagree on when absence on one side is a difference
Disagreeing(original, restored) ==
    {f \in IdentityFields :
        \/ (f \in DOMAIN original) # (f \in DOMAIN restored)
        \/ /\ f \in DOMAIN original
           /\ f \in DOMAIN restored
           /\ original[f] # restored[f]}

\* the fields compare_entity reads, and those that read differently (an
\* absent key reads as null)
ComparedFields(original) ==
    {"id", "name"} \cup {f \in IdentityFields : f \in DOMAIN original}

ReadDifferently(original, restored) ==
    {f \in ComparedFields(original) :
        (IF f \in DOMAIN original THEN original[f] ELSE None)
           # (IF f \in DOMAIN restored THEN restored[f] ELSE None)}

C20_PerfectRestoration ==
    script = "verify_restoration" =>
        /\ pc = "returned" =>
              results.perfect_restoration
                 = /\ Len(results.entities) = Len(targets)
                   /\ \A j \in 1..Len(results.entities) :
                         /\ "restored" \in DOMAIN results.entities[j]
                         /\ results.entities[j].differences = <<>>
        /\ (pc = "exit" /\ files # <<>>) =>
              /\ files[1] = results
              /\ exitCode = IF results.perfect_restoration THEN 0 ELSE 1

C20_Witness ==
    /\ script = "verify_restoration"
    /\ pc = "exit"
    /\ exitCode = 1
    /\ targets = <<[id |-> Some(1), name |-> Some("X")],
                   [id |-> Some(2), name |-> Some("X")]>>
    /\ Len(files) = 1
    /\ ~ files[1].perfect_restoration
    /\ files[1].entities[1].status = "PARTIAL"
    /\ files[1].entities[1].restored = [id |-> Some(1), name |-> Some("Y")]
    /\ files[1].entities[1].differences = <<[field |-> "name"]>>
    /\ files[1].entities[2].status = "PERFECT"

\* the commands that persist a report, and the reports on disk
Reporting == DeletionScripts \cup {"analyze_region", "find_dependencies",
                                   "search_entities", "check_restoration",
                                   "verify_restoration"}

HasField(report, field) == script # "search_entities" /\ field \in DOMAIN report

\* C15 as stated: the report every command persists has a 'timestamp' field
\* and a 'dry_run' field.
C15_ReportFieldsAsStated ==
    script \in Reporting =>
        \A j \in 1..Len(files) :
            HasField(files[j], "timestamp") /\ HasField(files[j], "dry_run")

\* C15: the report persisted by a deletion driver always includes 'timestamp'
\* and 'dry_run'; that of analyze_region includes 'timestamp' and no
\* 'dry_run'; those of find_dependencies, check_restoration and
\* verify_restoration include neither, and search_entities persists a bare
\* list of matches, which has no fields.
C15_ReportFields ==
    script \in Reporting =>
        \A j \in 1..Len(files) :
            /\ HasField(files[j], "timestamp")
                  = (script \in DeletionScripts \cup {"analyze_region"})
            /\ HasField(files[j], "dry_run") = (script \in DeletionScripts)
            /\ script \in DeletionScripts => files[j].dry_run = dry_run
            /\ script = "search_entities" => DOMAIN files[j] = 1..Len(files[j])

C15_Witness ==
    /\ script = "search_entities"
    /\ pc = "exit"
    /\ exitCode = 0
    /\ Len(files) = 1
    /\ Len(files[1]) = 2

\* the ids check_restoration has classified so far
Checking ==
    /\ script = "check_restoration"
    /\ pc \in {"check_loop", "check_wait", "returned"}

CheckedIds == SubSeq(argv.ids, 1, i - 1)

C21_State ==
    /\ Checking =>
          /\ Len(results.restored) + Len(results.still_missing) = Len(CheckedIds)
          /\ \A id \in Ids :
                Count(IdsOf(results.restored), id)
                   + Count(IdsOf(results.still_missing), id) = Count(CheckedIds, id)
    /\ (script = "check_restoration" /\ pc = "returned") =>
          Len(results.restored) + Len(results.still_missing) = Len(argv.ids)
    /\ (script = "check_restoration" /\ pc = "exit" /\ files # <<>>) =>
          /\ files[1] = results
          /\ (exitCode # 0) = (results.still_missing # <<>>)

C21_Step ==
    (script = "check_restoration" /\ pc = "check_wait" /\ pc' = "check_loop") =>
        /\ req.id = argv.ids[i]
        /\ i' = i + 1
        /\ IF get_one(req).found
           THEN /\ Len(results'.restored) = Len(results.restored) + 1
                /\ results'.restored[Len(results'.restored)].id = argv.ids[i]
                /\ results'.still_missing = results.still_missing
           ELSE /\ Len(results'.still_missing) = Len(results.still_missing) + 1
                /\ results'.still_missing[Len(results'.still_missing)].id = argv.ids[i]
                /\ results'.restored = results.restored

\* C21: check_restoration calls the getter once for each given id, in order,
\* and files the id under 'restored' when the lookup returned a record and
\* under 'still_missing' otherwise, never under both; when it returns,
\* len(restored) + len(still_missing) is the number of ids given, and once
\* the results are saved the process exits non-zero exactly when
\* still_missing is non-empty.
C21_CheckRestoration == [] C21_State /\ [][C21_Step]_vars

C21_Witness ==
    /\ script = "check_restoration"
    /\ argv.ids = <<2, 2>>
    /\ pc = "exit"
    /\ exitCode = 1
    /\ Len(files) = 1
    /\ Len(files[1].restored) = 1
    /\ Len(files[1].still_missing) = 1
    /\ files[1].restored[1].id = 2

\* the commands that only look
ReadOnlyScripts == {"analyze_region", "find_dependencies", "search_entities",
                    "check_restoration", "verify_restoration"}

\* C22: analyze_region, find_dependencies (every --type), search_entities,
\* check_restoration and verify_restoration only ever send GET requests:
\* every request they build is a GET, no DELETE or POST reaches the server,
\* and no delete method of the client is called.
C22_ReadOnly ==
    script \in ReadOnlyScripts =>
        /\ req.state # "idle" => req.method = "GET"
        /\ http \subseteq {"GET"}
        /\ httpDeleteIds = {}
        /\ deleteCalls = <<>>

C22_Witness ==
    /\ script = "verify_restoration"
    /\ pc = "exit"
    /\ Len(files) = 1
    /\ Len(files[1].entities) = 2
    /\ files[1].entities[2].status = "NOT_FOUND"
    /\ http = {"GET"}
    /\ httpGets = {"controls"}

\* ------------------------------------------------------------------ C23
\* two characters that differ in case at most
FoldEq(c, d) == c = d \/ {c, d} \in {{"a", "A"}, {"b", "B"}}

\* pattern occurs in text, letter for letter or ignoring case
Occurs(pattern, text, ignoring_case) ==
    \E start \in 0..(Len(text) - Len(pattern)) :
        \A j \in 1..Len(pattern) :
            IF ignoring_case THEN FoldEq(pattern[j], text[start + j])
            ELSE pattern[j] = text[start + j]

\* the text a record carries in a field, the empty text when it carries none
TextOf(record, field) ==
    IF field \in DOMAIN record /\ record[field] # None THEN record[field][1] ELSE <<>>

OccursInRecord(pattern, record, ignoring_case) ==
    \/ Occurs(pattern, TextOf(record, "uid"), ignoring_case)
    \/ Occurs(pattern, TextOf(record, "name"), ignoring_case)

\* a pattern selection has returned: the records it looked at, and its matches
Selected ==
    \/ script = "search_entities" /\ pc = "returned"
    \/ script = "delete_controls" /\ DOMAIN fetched = {"controls"}

Searched == IF script = "search_entities" THEN fetched[argv.type] ELSE fetched["controls"]

MatchedRecords ==
    IF script = "delete_controls" THEN targets
    ELSE IF argv.type = "controls" THEN [j \in 1..Len(results) |-> results[j].control]
    ELSE results

\* C23: whenever get_controls_by_pattern, search_controls, search_processes or
\* search_entities has returned its matches: without case_sensitive the matches
\* are exactly the fetched records, in their order, in whose uid or name the
\* pattern occurs ignoring case, and every other casing of the pattern selects
\* the same records; with case_sensitive no record is matched in whose uid and
\* name the pattern does not occur letter for letter.
C23_PatternSelection ==
    Selected =>
        /\ ~ argv.case_sensitive =>
              /\ MatchedRecords =
                    SelectSeq(Searched,
                              LAMBDA record : OccursInRecord(argv.pattern, record, TRUE))
              /\ \A p \in Patterns :
                    (Len(p) = Len(argv.pattern)
                        /\ \A j \in 1..Len(p) : FoldEq(p[j], argv.pattern[j]))
                    => search_matching(IF script = "search_entities" THEN argv.type
                                       ELSE "controls",
                                       Searched, p, FALSE).matching = MatchedRecords
        /\ argv.case_sensitive =>
              \A j \in 1..Len(Searched) :
                 ~ OccursInRecord(argv.pattern, Searched[j], FALSE)
                 => \A m \in 1..Len(MatchedRecords) : MatchedRecords[m] # Searched[j]

\* delete_controls --pattern ab, case-insensitive, ran to its report: of two
\* fetched controls the one named AB was selected and the other was not
C23_Witness ==
    /\ script = "delete_controls"
    /\ pc = "exit"
    /\ files # <<>>
    /\ DOMAIN fetched = {"controls"}
    /\ ~ argv.case_sensitive
    /\ argv.pattern = <<"a", "b">>
    /\ Len(fetched["controls"]) = 2
    /\ Len(targets) = 1
    /\ targets[1].name = Some(<<"A", "B">>)

\* ------------------------------------------------------------------ C24
\* a deletion entry point ran to the end of main() in dry-run mode
DryRunCompleted ==
    /\ script \in DeletionScripts
    /\ dry_run
    /\ pc = "exit"
    /\ files # <<>>

\* C24 as stated: every deletion entry point that runs to completion in dry-run
\* mode exits with code zero.
C24_DryRunExitAsStated == DryRunCompleted => exitCode = 0

\* C24: a bulk deletion entry point that runs to completion in dry-run mode exits
\* with code zero; delete_region that runs to completion in dry-run mode exits
\* with code zero when its report says success, and with code one when the
\* report carries an error (region not found, dependencies exist).
C24_DryRunExit ==
    DryRunCompleted =>
        /\ script \in BulkScripts => exitCode = 0
        /\ script = "delete_region" =>
              /\ exitCode = (IF "error" \in DOMAIN results THEN 1 ELSE 0)
              /\ results.success = ("error" \notin DOMAIN results)

\* delete_region in dry-run mode found dependencies, saved its report and
\* exited with code one
C24_Witness ==
    /\ DryRunCompleted
    /\ script = "delete_region"
    /\ "error" \in DOMAIN results
    /\ results.error = "Dependencies exist"
    /\ exitCode = 1

\* ------------------------------------------------------------------ C25
\* analyze_region returned its state dict (results), saved or about to be
AnalysisReported ==
    /\ script = "analyze_region"
    /\ pc = "returned" \/ (pc = "exit" /\ files # <<>>)

\* some record of the list has the value in the field
Among(value, records, field) == \E j \in 1..Len(records) : records[j][field] = value

\* C25: the report of analyze_region is closed under its foreign keys: every
\* reported processes_data names a reported entity; every reported process is
\* named by a reported processes_data; every reported subprocesses_data names a
\* reported processes_data; every reported subprocess, and the subprocess_id of
\* every reported control, is named by a reported subprocesses_data; every
\* reported controls_data names a reported control; every reported entity is of
\* the requested region; every count of the summary is the length of its list.
C25_ReportClosed ==
    AnalysisReported =>
        /\ \A j \in 1..Len(results.processes_data) :
              Among(results.processes_data[j].entity_id, results.entities, "id")
        /\ \A j \in 1..Len(results.processes) :
              Among(results.processes[j].id, results.processes_data, "process_id")
        /\ \A j \in 1..Len(results.subprocesses_data) :
              Among(results.subprocesses_data[j].processes_datum_id,
                    results.processes_data, "id")
        /\ \A j \in 1..Len(results.subprocesses) :
              Among(results.subprocesses[j].id, results.subprocesses_data,
                    "subprocess_id")
        /\ \A j \in 1..Len(results.controls) :
              Among(results.controls[j].subprocess_id, results.subprocesses_data,
                    "subprocess_id")
        /\ \A j \in 1..Len(results.controls_data) :
              Among(results.controls_data[j].control_id, results.controls, "id")
        /\ \A j \in 1..Len(results.entities) :
              results.entities[j].region_id = argv.region_id
        /\ results.region_id = argv.region_id
        /\ results.summary # <<>> =>
              /\ results.summary.entities_count = Len(results.entities)
              /\ results.summary.processes_count = Len(results.processes)
              /\ results.summary.subprocesses_count = Len(results.subprocesses)
              /\ results.summary.controls_count = Len(results.controls)
              /\ results.summary.controls_data_count = Len(results.controls_data)
              /\ results.summary.processes_data_count = Len(results.processes_data)
              /\ results.summary.subprocesses_data_count =
                    Len(results.subprocesses_data)

\* an analysis that found records at every level was saved
C25_Witness ==
    /\ AnalysisReported
    /\ pc = "exit"
    /\ results.summary # <<>>
    /\ results.entities # <<>>
    /\ results.processes # <<>>
    /\ results.subprocesses # <<>>
    /\ results.controls # <<>>
    /\ results.controls_data # <<>>
    /\ results.summary.controls_data_count = Len(results.controls_data)

\* ------------------------------------------------------------------ C26
\* a bulk driver is in its delete loop or past it (the loop is entered with
\* at least one target)
InBulkLoop ==
    /\ script \in BulkScripts
    /\ targets # <<>>
    /\ pc \in {"loop", "delete_wait", "pace", "returned"} \/ (pc = "exit" /\ files # <<>>)

LoopFinished == InBulkLoop /\ pc \in {"returned", "exit"}

\* C26: with pause_every_n = N >= 1, in live mode the rate-limit sleep has
\* followed item j, once, exactly for the items j already passed with j mod N = 0
\* and j < total, in their order; a sleep is pending only after such an item;
\* no sleep follows the last item; a finished loop has slept (total - 1) div N
\* times; in dry-run mode no rate-limit sleep occurs.
C26_Pacing ==
    (InBulkLoop /\ config.deletion.pause_every_n >= 1) =>
        LET N == config.deletion.pause_every_n
        IN  /\ dry_run => paceSleeps = <<>> /\ pc # "pace"
            /\ \A j \in 1..Total :
                  (\E m \in 1..Len(paceSleeps) : paceSleeps[m] = j)
                  <=> (~ dry_run /\ j < i /\ j % N = 0 /\ j < Total)
            /\ \A m \in 1..(Len(paceSleeps) - 1) : paceSleeps[m] < paceSleeps[m + 1]
            /\ \A m \in 1..Len(paceSleeps) : paceSleeps[m] \in 1..(Total - 1)
            /\ pc = "pace" => i % N = 0 /\ i < Total
            /\ (LoopFinished /\ ~ dry_run) => Len(paceSleeps) = (Total - 1) \div N

\* a live deletion of two items with pause_every_n = 1 finished: it slept after
\* the first item only
C26_Witness ==
    /\ LoopFinished
    /\ ~ dry_run
    /\ config.deletion.pause_every_n = 1
    /\ Total = 2
    /\ paceSleeps = <<1>>
    /\ pc = "exit"

\* ------------------------------------------------------------------ C27
\* analyze_region and the dependency check both reported on the same server
BothReported == pc = "compared"

\* C27 as stated: whenever analyze_region reports entities_count = 0 and
\* processes_count = 0 for a region, the region dependency checker run on the
\* same server reports has_dependencies = false; every process whose region_id
\* is the region appears in the analysis report.
C27_Agreement ==
    BothReported =>
        /\ (results.summary.entities_count = 0 /\ results.summary.processes_count = 0)
              => ~ clientResult.has_dependencies
        /\ \A j \in 1..Len(fetched.processes) :
              fetched.processes[j].region_id = argv.region_id
              => Among(fetched.processes[j].id, results.processes, "id")

\* ------------------------------------------------------------------ C28
\* the total a bulk report states
ReportTotal == IF script = "delete_controls" THEN results.total_controls ELSE results.total

\* no confirmation prompt, no countdown, no DELETE so far
NothingDone ==
    /\ userInput = NoInput
    /\ ~ countdownSlept
    /\ deleteCalls = <<>>
    /\ "DELETE" \notin http
    /\ httpDeleteIds = {}

C28_State ==
    script \in BulkScripts =>
        /\ Len(targets) <= k - 1
        /\ (targets = <<>> \/ pc \in {"main", "resolve", "resolve_wait"}) => NothingDone
        /\ \A j \in 1..Len(deleteCalls) : j <= Len(targets) /\ deleteCalls[j] = targets[j].id
        /\ results # <<>> =>
              /\ ReportTotal = Len(targets)
              /\ \A j \in 1..Len(results.deleted) : Among(results.deleted[j].id, targets, "id")
              /\ \A j \in 1..Len(results.failed) : Among(results.failed[j].id, targets, "id")
        /\ (targets = <<>> /\ (pc = "returned" \/ (pc = "exit" /\ files # <<>>))) =>
              /\ ReportTotal = 0
              /\ results.deleted = <<>>
              /\ results.failed = <<>>
              /\ results.dry_run = dry_run

C28_Step ==
    script \in BulkScripts =>
        /\ (pc = "resolve_wait" /\ pc' = "resolve") =>
              /\ req.id = argv.ids[k]
              /\ k' = k + 1
              /\ targets' = IF get_one(req).found
                            THEN Append(targets, [id |-> argv.ids[k]])
                            ELSE targets
        /\ targets' # targets => (pc = "resolve_wait" /\ pc' = "resolve")

\* C28: in every bulk deletion driver an id whose per-id lookup returns the
\* absent sentinel is dropped before the loop: it is not among the targets, so no
\* DELETE is sent for it, it is in neither list of the report and it is not
\* counted in the total; when no id resolves the driver returns total = 0 with
\* empty lists and has not prompted for the confirmation phrase, counted down or
\* sent a DELETE, in dry-run as in live mode.
C28_AbsentDropped == [] C28_State /\ [][C28_Step]_vars

\* delete_entities --ids with two ids --live: both lookups came back absent, and
\* the report with total 0 was saved without a prompt
C28_Witness ==
    /\ script = "delete_entities"
    /\ ~ dry_run
    /\ Len(argv.ids) = 2
    /\ k = 3
    /\ targets = <<>>
    /\ pc = "exit"
    /\ files = <<EmptyResult(script, FALSE)>>
    /\ NothingDone

\* ------------------------------------------------------------------ C29
\* C29 as stated: in every entry point, once main() has built its client, the
\* client's max_retries and retry_delay are those of the loaded configuration's
\* auditboard section, so that with a configured max_retries = 0 no request is
\* sent a second time.
C29_ClientSettings ==
    pc # "main" =>
        /\ client.max_retries = config.auditboard.max_retries
        /\ client.retry_delay = config.auditboard.retry_delay
        /\ config.auditboard.max_retries = 0 => req.attempts <= 1 /\ req.sleeps = <<>>

\* ------------------------------------------------------------------ C30
\* a bulk driver is inside its delete loop
InDeleteLoop ==
    /\ script \in BulkScripts
    /\ pc \in {"loop", "delete_wait", "pace"}

\* C30: whatever the server does at each attempt, and for every max_retries,
\* every call of _make_request eventually returns or raises, and every delete
\* loop that was entered eventually reaches its summary.
C30_Termination ==
    /\ (req.state = "pending") ~> (req.state \in {"returned", "raised"})
    /\ InDeleteLoop ~> (pc = "returned")

\* the DELETE of the second item of a live run was retried max_retries = 3
\* times and raised after the fourth attempt; the loop goes on from there
C30_Witness ==
    /\ InDeleteLoop
    /\ pc = "delete_wait"
    /\ i = 2
    /\ client.max_retries = 3
    /\ req.state = "raised"
    /\ req.attempts = 4
    /\ req.retry_count = 3

====
